---- MODULE Spec2Model ----
(***************************************************************************)
(* The browser agent of src/main.py (execute_browser_task, served by the   *)
(* HTTP handlers) and of src/local_test.py (run_local_agent): the agent    *)
(* loop, the action executor, the key-combination resolver, the            *)
(* coordinate mapper and the screenshot clean-up of the conversation.      *)
(*                                                                         *)
(* Python values are modelled as follows.  A string is a TLA+ string.  A   *)
(* list is a sequence.  None, the empty list and the empty string are all  *)
(* falsy in Python and the code only ever tests them for truth, so an      *)
(* absent text is "", an absent part list is << >> with has_parts = FALSE  *)
(* where the code can tell None from [] (it cannot iterate None).  A dict   *)
(* of arguments is a record with a field `has`, the set of its keys.        *)
(* Screenshot bytes are opaque: an image is the token "image/png".          *)
(***************************************************************************)
EXTENDS Integers, Sequences, FiniteSets, TLC

(***************************************************************************)
(* Bounds of the model (not program constants).                            *)
(***************************************************************************)
\* The iterations of one run that leave the plain script follow one another:
\* there are at most MaxVaried of them, counted from the first.  The plain
\* script is: the inference call succeeds at once, the responder turn requests
\* one click_at or ends the task with the answer "Done", the browser raises
\* nothing.  An iteration that leaves it may leave it in every way at once.
MaxVaried == 1

\* The pages that are open beside the agent's own at one time.
MaxTabs == 1

\* The request handlers that run at one time in the process, and the
\* get_client calls each of them makes.
MaxHandlers == 2
MaxCalls == 2

(***************************************************************************)
(* Program constants.                                                      *)
(***************************************************************************)
SCREEN_WIDTH == 1440
SCREEN_HEIGHT == 900
MAX_RECENT_TURNS_WITH_SCREENSHOTS == 3
\* for turn in range(15) in execute_browser_task
TurnsExecuteBrowserTask == 15
\* for turn in range(10) in run_local_agent
TurnsRunLocalAgent == 10
\* get_model_response(..., max_retries=5, base_delay_s=1)
max_retries == 5
base_delay_s == 1
\* "normalized x coordinate (0-999)", main.py 95
NormalizedMax == 999

PREDEFINED_COMPUTER_USE_FUNCTIONS ==
  { "open_web_browser", "click_at", "hover_at", "type_text_at",
    "scroll_document", "scroll_at", "wait_5_seconds", "go_back",
    "go_forward", "search", "navigate", "key_combination", "drag_and_drop" }

\* The action names each loop's if/elif chain dispatches on.
DispatchedNames(loop) ==
  IF loop = "execute_browser_task"
  THEN PREDEFINED_COMPUTER_USE_FUNCTIONS
  ELSE { "click_at", "type_text_at", "scroll_document", "navigate", "hover_at",
         "go_back", "search", "wait_5_seconds", "key_combination" }

(***************************************************************************)
(* The two agent loops, and their callers: the three HTTP handlers call    *)
(* execute_browser_task (main.py 788, 850, 991), the command-line script   *)
(* calls run_local_agent (local_test.py 275).                              *)
(***************************************************************************)
Loops == { "execute_browser_task", "run_local_agent" }

Callers == { "handle_request", "handle_diagram", "handle_roi", "local_test" }

LoopOf(h) == IF h = "local_test" THEN "run_local_agent" ELSE "execute_browser_task"

MaxTurns_off_by_one(l) ==
  IF l = "execute_browser_task" THEN TurnsExecuteBrowserTask + 1
  ELSE TurnsRunLocalAgent + 1

\* The number of iterations of the agent loop: range(15), range(10).
MaxTurns(l) ==
  IF l = "execute_browser_task" THEN TurnsExecuteBrowserTask ELSE TurnsRunLocalAgent

(***************************************************************************)
(* Strings: str.lower, str.split("+"), str.startswith, " ".join.           *)
(***************************************************************************)
LowerChar(c) ==
  CASE c = "A" -> "a" [] c = "B" -> "b" [] c = "C" -> "c" [] c = "D" -> "d"
    [] c = "E" -> "e" [] c = "F" -> "f" [] c = "G" -> "g" [] c = "H" -> "h"
    [] c = "I" -> "i" [] c = "J" -> "j" [] c = "K" -> "k" [] c = "L" -> "l"
    [] c = "M" -> "m" [] c = "N" -> "n" [] c = "O" -> "o" [] c = "P" -> "p"
    [] c = "Q" -> "q" [] c = "R" -> "r" [] c = "S" -> "s" [] c = "T" -> "t"
    [] c = "U" -> "u" [] c = "V" -> "v" [] c = "W" -> "w" [] c = "X" -> "x"
    [] c = "Y" -> "y" [] c = "Z" -> "z" [] OTHER -> c

RECURSIVE Lower(_)
Lower(s) == IF s = "" THEN "" ELSE LowerChar(Head(s)) \o Lower(Tail(s))

\* s.split(sep) for a one-character separator: the pieces between the
\* separators, empty pieces included.
RECURSIVE SplitFrom(_, _, _)
SplitFrom(s, sep, cur) ==
  IF s = "" THEN << cur >>
  ELSE IF Head(s) = sep THEN << cur >> \o SplitFrom(Tail(s), sep, "")
  ELSE SplitFrom(Tail(s), sep, cur \o Head(s))

Split(s, sep) == SplitFrom(s, sep, "")

StartsWith(s, p) == Len(s) >= Len(p) /\ SubSeq(s, 1, Len(p)) = p

RECURSIVE Join(_, _)
Join(ss, sep) ==
  IF ss = << >> THEN ""
  ELSE IF Len(ss) = 1 THEN ss[1]
  ELSE ss[1] \o sep \o Join(Tail(ss), sep)

Reverse(s) == [i \in 1..Len(s) |-> s[Len(s) + 1 - i]]

(***************************************************************************)
(* Browser primitives, as the events the Playwright page receives.         *)
(***************************************************************************)
Ev(op, a, b, s) == [op |-> op, a |-> a, b |-> b, s |-> s]

WaitForLoadState == Ev("page.wait_for_load_state", 0, 0, "")
Sleep(ms) == Ev("time.sleep", ms, 0, "")
Screenshot == Ev("page.screenshot", 0, 0, "png")

\* The primitives that dispatch input to the page or navigate it.
InputOps ==
  { "mouse.click", "mouse.move", "mouse.down", "mouse.up", "mouse.wheel",
    "keyboard.down", "keyboard.up", "keyboard.press", "keyboard.type",
    "page.goto", "page.go_back", "page.go_forward", "page.evaluate" }

(***************************************************************************)
(* Coordinate mapper.                                                      *)
(***************************************************************************)
\* int(x / 1000 * SCREEN_WIDTH) is computed in binary floating point: x / 1000
\* is rounded first, and for these x in 0..1000 the product falls just below
\* the whole number x * 1440 / 1000, which int() then truncates to one less.
\* With SCREEN_HEIGHT = 900 no y in 0..1000 does so.
RoundsBelowX == { 175, 350, 575, 700 }

denormalize_x_scale_999(x) == (x * SCREEN_WIDTH) \div NormalizedMax

denormalize_x(x) ==
  ((x * SCREEN_WIDTH) \div 1000) - (IF x \in RoundsBelowX THEN 1 ELSE 0)

denormalize_y(y) == (y * SCREEN_HEIGHT) \div 1000

(***************************************************************************)
(* Key-combination resolver.                                               *)
(***************************************************************************)
PLAYWRIGHT_KEY_MAP(loop, k) ==
  IF loop = "execute_browser_task"
  THEN CASE k = "backspace" -> "Backspace" [] k = "tab" -> "Tab"
         [] k = "return" -> "Enter" [] k = "enter" -> "Enter"
         [] k = "shift" -> "Shift" [] k = "control" -> "Control"
         [] k = "alt" -> "Alt" [] k = "escape" -> "Escape"
         [] k = "space" -> "Space" [] k = "pageup" -> "PageUp"
         [] k = "pagedown" -> "PageDown" [] k = "end" -> "End"
         [] k = "home" -> "Home" [] k = "left" -> "ArrowLeft"
         [] k = "up" -> "ArrowUp" [] k = "right" -> "ArrowRight"
         [] k = "down" -> "ArrowDown" [] k = "insert" -> "Insert"
         [] k = "delete" -> "Delete"
         [] k = "f1" -> "F1" [] k = "f2" -> "F2" [] k = "f3" -> "F3"
         [] k = "f4" -> "F4" [] k = "f5" -> "F5" [] k = "f6" -> "F6"
         [] k = "f7" -> "F7" [] k = "f8" -> "F8" [] k = "f9" -> "F9"
         [] k = "f10" -> "F10" [] k = "f11" -> "F11" [] k = "f12" -> "F12"
         [] k = "command" -> "Meta" [] k = "meta" -> "Meta"
         [] OTHER -> ""
  ELSE CASE k = "control" -> "Control" [] k = "shift" -> "Shift"
         [] k = "alt" -> "Alt" [] k = "enter" -> "Enter" [] k = "tab" -> "Tab"
         [] k = "escape" -> "Escape" [] k = "backspace" -> "Backspace"
         [] k = "delete" -> "Delete" [] k = "pageup" -> "PageUp"
         [] k = "pagedown" -> "PageDown"
         [] k = "command" -> "Meta" [] k = "meta" -> "Meta"
         [] OTHER -> ""

\* PLAYWRIGHT_KEY_MAP.get(k.lower(), k)
NormalizeKey(loop, k) ==
  LET m == PLAYWRIGHT_KEY_MAP(loop, Lower(k)) IN IF m = "" THEN k ELSE m

execute_key_combination_release_in_hold_order(loop, keys_str) ==
  LET raw == Split(keys_str, "+")
      keys == [i \in 1..Len(raw) |-> NormalizeKey(loop, raw[i])]
      held == SubSeq(keys, 1, Len(keys) - 1)
  IN  [i \in 1..Len(held) |-> Ev("keyboard.down", 0, 0, held[i])]
      \o << Ev("keyboard.press", 0, 0, keys[Len(keys)]) >>
      \o [i \in 1..Len(held) |-> Ev("keyboard.up", 0, 0, held[i])]

\* The keyboard events of execute_key_combination(page, keys_str).
execute_key_combination(loop, keys_str) ==
  LET raw == Split(keys_str, "+")
      keys == [i \in 1..Len(raw) |-> NormalizeKey(loop, raw[i])]
      held == SubSeq(keys, 1, Len(keys) - 1)
  IN  [i \in 1..Len(held) |-> Ev("keyboard.down", 0, 0, held[i])]
      \o << Ev("keyboard.press", 0, 0, keys[Len(keys)]) >>
      \o [i \in 1..Len(held) |-> Ev("keyboard.up", 0, 0, Reverse(held)[i])]

(***************************************************************************)
(* Parts, function calls and function responses.                           *)
(***************************************************************************)
NoArgs ==
  [has |-> {}, x |-> 0, y |-> 0, destination_x |-> 0, destination_y |-> 0,
   magnitude |-> 0, text |-> "", url |-> "", keys |-> "", direction |-> "",
   clear_before_typing |-> TRUE, press_enter |-> FALSE, safety_decision |-> ""]

NoCall == [set |-> FALSE, name |-> "", args |-> NoArgs]

NoFr == [set |-> FALSE, name |-> "", url |-> "", safety_acknowledgement |-> FALSE,
         parts |-> << >>]

NoPart == [text |-> "", inline_data |-> "", function_call |-> NoCall,
           function_response |-> NoFr]

TextPart(t) == [NoPart EXCEPT !.text = t]

ImagePart == [NoPart EXCEPT !.inline_data = "image/png"]

CallPart(name, args) ==
  [NoPart EXCEPT !.function_call = [set |-> TRUE, name |-> name, args |-> args]]

XY(x, y) == [NoArgs EXCEPT !.has = {"x", "y"}, !.x = x, !.y = y]

\* args with a safety_decision; "" stands for an empty one ({}), which
\* Python takes as false.
WithSafety(args) ==
  [args EXCEPT !.has = @ \cup {"safety_decision"},
               !.safety_decision = "require_confirmation"]

WithEmptySafety(args) == [args EXCEPT !.has = @ \cup {"safety_decision"}]

\* The plain script's only request.
PlainPart == CallPart("click_at", XY(500, 50))

NavigatePart ==
  CallPart("navigate", [NoArgs EXCEPT !.has = {"url"}, !.url = "wikipedia.org"])

TypeTextPart ==
  CallPart("type_text_at",
           [NoArgs EXCEPT !.has = {"x", "y", "text"}, !.x = 500, !.y = 50, !.text = "X"])

\* A name outside the action vocabulary.
UnknownPart == CallPart("zoom_page", NoArgs)

SafetyPart == CallPart("click_at", WithSafety(XY(10, 999)))

\* The part lists of a responder turn that requests actions.
ActingPartLists ==
  { << PlainPart >>,
    << UnknownPart >>,
    << NavigatePart, TypeTextPart >>,
    << TextPart("I will click"), SafetyPart >>,
    << NavigatePart, UnknownPart, TypeTextPart >> }

\* The part lists of a responder turn without a request.
FinalPartLists ==
  { << >>, << TextPart("Done") >>, << TextPart("Done"), TextPart("ok") >>,
    << TextPart(""), TextPart("Done") >> }

HasCalls(parts) == \E i \in 1..Len(parts) : parts[i].function_call.set

(***************************************************************************)
(* Candidates.  has_content is `candidate.content is not None`, has_parts  *)
(* is `candidate.content.parts is not None`.                               *)
(***************************************************************************)
Candidate(fin, hc, hp, parts) ==
  [finish_reason |-> fin, has_content |-> hc, has_parts |-> hp, parts |-> parts]

NoCandidate == Candidate("", FALSE, FALSE, << >>)

\* The plain script.
PlainCandidates ==
  { Candidate("STOP", TRUE, TRUE, << PlainPart >>),
    Candidate("STOP", TRUE, TRUE, << TextPart("Done") >>) }

\* Candidates that request actions; one is flagged malformed all the same.
ActingCandidates ==
  { Candidate("STOP", TRUE, TRUE, ps) : ps \in ActingPartLists }
  \cup { Candidate("MALFORMED_FUNCTION_CALL", TRUE, TRUE, << PlainPart >>) }

\* Candidates without a request: a final answer, or a malformed output.
\* content may be None, and so may content.parts.
SilentCandidates ==
  { Candidate("STOP", TRUE, TRUE, ps) : ps \in FinalPartLists }
  \cup { Candidate("MALFORMED_FUNCTION_CALL", TRUE, TRUE, ps) :
           ps \in { << >>, << TextPart("Sorry") >> } }
  \cup { Candidate(fin, hc, FALSE, << >>) :
           fin \in {"STOP", "MALFORMED_FUNCTION_CALL"}, hc \in BOOLEAN }

\* response.candidates: empty, or the one candidate the loop reads.
Responses ==
  { << >> } \cup { << c >> : c \in ActingCandidates \cup SilentCandidates }

(***************************************************************************)
(* Action executor: the browser calls of one action's try block, in        *)
(* order.  A Raise event stands for an exception the code itself raises    *)
(* there (a KeyError of args[...]); nothing after it is reached.            *)
(***************************************************************************)
Raise(what) == Ev("raise", 0, 0, what)

\* args[key] ; rest    -- KeyError when the key is missing
Need(args, key, rest) == IF key \in args.has THEN rest ELSE << Raise("KeyError") >>

\* args.get(key, default)
ArgGet(args, key, default) == IF key \in args.has THEN args[key] ELSE default

NormalizeUrl_always_prefix(url) == "https://" \o url

\* navigate: prefix https:// unless the url has a scheme.
NormalizeUrl(url) ==
  IF StartsWith(url, "http://") \/ StartsWith(url, "https://") THEN url
  ELSE "https://" \o url

\* The type_text_at branch, lines 344-361 of main.py: click, settle-wait, the
\* clearing chords unless clear_before_typing is falsy, the text, settle-wait,
\* and Enter when press_enter is truthy.  args["text"] is read after the
\* clearing chords.
type_text_at_types_before_clearing(args) ==
  Need(args, "x", Need(args, "y",
    << Ev("mouse.click", denormalize_x(args.x), denormalize_y(args.y), ""),
       WaitForLoadState >>
    \o Need(args, "text",
         << Ev("keyboard.type", 0, 0, args.text), WaitForLoadState >>
         \o (IF ArgGet(args, "clear_before_typing", TRUE)
             THEN execute_key_combination("execute_browser_task", "Control+A")
                  \o execute_key_combination("execute_browser_task", "Delete")
             ELSE << >>)
         \o (IF ArgGet(args, "press_enter", FALSE)
             THEN execute_key_combination("execute_browser_task", "Enter")
             ELSE << >>))))

type_text_at(args) ==
  Need(args, "x", Need(args, "y",
    << Ev("mouse.click", denormalize_x(args.x), denormalize_y(args.y), ""),
       WaitForLoadState >>
    \o (IF ArgGet(args, "clear_before_typing", TRUE)
        THEN execute_key_combination("execute_browser_task", "Control+A")
             \o execute_key_combination("execute_browser_task", "Delete")
        ELSE << >>)
    \o Need(args, "text",
         << Ev("keyboard.type", 0, 0, args.text), WaitForLoadState >>
         \o (IF ArgGet(args, "press_enter", FALSE)
             THEN execute_key_combination("execute_browser_task", "Enter")
             ELSE << >>))))

\* The scroll_at branch, lines 376-400 of main.py: the magnitude is
\* denormalized against the height for up and down and against the width for
\* every other direction; a direction outside the four leaves both deltas 0.
scroll_at_vertical_on_width(args) ==
  Need(args, "x", Need(args, "y", Need(args, "direction",
    LET magnitude == ArgGet(args, "magnitude", 800)
        m == denormalize_x(magnitude)
        dx == CASE args.direction = "left" -> 0 - m
                [] args.direction = "right" -> m [] OTHER -> 0
        dy == CASE args.direction = "up" -> 0 - m
                [] args.direction = "down" -> m [] OTHER -> 0
    IN << Ev("mouse.move", denormalize_x(args.x), denormalize_y(args.y), ""),
          Ev("mouse.wheel", dx, dy, "") >>)))

scroll_at(args) ==
  Need(args, "x", Need(args, "y", Need(args, "direction",
    LET magnitude == ArgGet(args, "magnitude", 800)
        m == IF args.direction \in {"up", "down"}
             THEN denormalize_y(magnitude) ELSE denormalize_x(magnitude)
        dx == CASE args.direction = "left" -> 0 - m
                [] args.direction = "right" -> m [] OTHER -> 0
        dy == CASE args.direction = "up" -> 0 - m
                [] args.direction = "down" -> m [] OTHER -> 0
    IN << Ev("mouse.move", denormalize_x(args.x), denormalize_y(args.y), ""),
          Ev("mouse.wheel", dx, dy, "") >>)))

\* The drag_and_drop branch, lines 425-447 of main.py.
drag_and_drop(args) ==
  Need(args, "x", Need(args, "y",
    Need(args, "destination_x", Need(args, "destination_y",
      << Ev("mouse.move", denormalize_x(args.x), denormalize_y(args.y), ""),
         WaitForLoadState,
         Ev("mouse.down", 0, 0, ""), WaitForLoadState,
         Ev("mouse.move", denormalize_x(args.destination_x),
            denormalize_y(args.destination_y), ""),
         WaitForLoadState, Ev("mouse.up", 0, 0, "") >>))))

\* The elif chain of execute_browser_task, lines 330-440 of main.py.
MainBody(name, args) ==
  LET l == "execute_browser_task"
      px == denormalize_x(args.x)
      py == denormalize_y(args.y)
  IN
  CASE name = "open_web_browser" -> << >>
    [] name = "click_at" ->
         Need(args, "x", Need(args, "y", << Ev("mouse.click", px, py, "") >>))
    [] name = "hover_at" ->
         Need(args, "x", Need(args, "y", << Ev("mouse.move", px, py, "") >>))
    [] name = "type_text_at" ->
         type_text_at(args)
    [] name = "scroll_document" ->
         Need(args, "direction",
           CASE args.direction = "down" -> execute_key_combination(l, "PageDown")
             [] args.direction = "up" -> execute_key_combination(l, "PageUp")
             [] args.direction = "left" ->
                  << Ev("page.evaluate", 0 - (SCREEN_WIDTH \div 2), 0, "window.scrollBy") >>
             [] args.direction = "right" ->
                  << Ev("page.evaluate", SCREEN_WIDTH \div 2, 0, "window.scrollBy") >>
             [] OTHER -> << >>)
    [] name = "scroll_at" ->
         scroll_at(args)
    [] name = "navigate" ->
         Need(args, "url", << Ev("page.goto", 0, 0, NormalizeUrl(args.url)) >>)
    [] name = "search" -> << Ev("page.goto", 0, 0, "https://www.google.com") >>
    [] name = "go_back" -> << Ev("page.go_back", 0, 0, "") >>
    [] name = "go_forward" -> << Ev("page.go_forward", 0, 0, "") >>
    [] name = "wait_5_seconds" -> << Sleep(5000) >>
    [] name = "key_combination" ->
         Need(args, "keys", execute_key_combination(l, args.keys))
    [] name = "drag_and_drop" ->
         drag_and_drop(args)
    [] OTHER -> << >>

\* The elif chain of run_local_agent, lines 158-213 of local_test.py.
LocalBody(name, args) ==
  LET l == "run_local_agent"
      px == denormalize_x(args.x)
      py == denormalize_y(args.y)
  IN
  CASE name = "click_at" ->
         Need(args, "x", Need(args, "y", << Ev("mouse.click", px, py, "") >>))
    [] name = "type_text_at" ->
         Need(args, "x", Need(args, "y", Need(args, "text",
           << Ev("mouse.click", px, py, "") >>
           \o (IF ArgGet(args, "clear_before_typing", TRUE)
               THEN execute_key_combination(l, "Control+A")
                    \o execute_key_combination(l, "Delete")
               ELSE << >>)
           \o << Ev("keyboard.type", 0, 0, args.text) >>
           \o (IF ArgGet(args, "press_enter", FALSE)
               THEN << Ev("keyboard.press", 0, 0, "Enter") >> ELSE << >>))))
    [] name = "scroll_document" ->
         Need(args, "direction",
           CASE args.direction = "down" -> << Ev("keyboard.press", 0, 0, "PageDown") >>
             [] args.direction = "up" -> << Ev("keyboard.press", 0, 0, "PageUp") >>
             [] OTHER -> << >>)
    [] name = "navigate" ->
         Need(args, "url", << Ev("page.goto", 0, 0, NormalizeUrl(args.url)) >>)
    [] name = "hover_at" ->
         Need(args, "x", Need(args, "y", << Ev("mouse.move", px, py, "") >>))
    [] name = "go_back" -> << Ev("page.go_back", 0, 0, "") >>
    [] name = "search" -> << Ev("page.goto", 0, 0, "https://www.google.com") >>
    [] name = "wait_5_seconds" -> << Sleep(5000) >>
    [] name = "key_combination" ->
         Need(args, "keys", execute_key_combination(l, args.keys))
    [] OTHER -> << >>

\* The settle-wait and the render pause that follow an action.
Settle(loop) ==
  << WaitForLoadState, Sleep(IF loop = "execute_browser_task" THEN 500 ELSE 1000) >>

TryBlock_settle_after(loop, name, args) ==
  IF loop = "execute_browser_task" THEN MainBody(name, args) ELSE LocalBody(name, args)

\* What the try block of one action holds: in execute_browser_task the
\* settle-wait and the pause are inside it (main.py 442-444).
TryBlock(loop, name, args) ==
  IF loop = "execute_browser_task" THEN MainBody(name, args) \o Settle(loop)
  ELSE LocalBody(name, args)

AfterTry_none(loop) == << >>

\* What runs between the except clause and the screenshot: in run_local_agent
\* the settle-wait and the pause (local_test.py 218-220).
AfterTry(loop) == IF loop = "execute_browser_task" THEN << >> ELSE Settle(loop)

\* The calls of a block that can raise: every browser call; time.sleep cannot.
CanRaise(ev) == ev.op # "time.sleep"

\* The first position of a block where the code itself raises, 0 if none.
RaiseAt(block) ==
  IF \E i \in 1..Len(block) : block[i].op = "raise"
  THEN CHOOSE i \in 1..Len(block) :
         block[i].op = "raise" /\ \A j \in 1..(i - 1) : block[j].op # "raise"
  ELSE 0

\* Where a block can stop with an exception: 0 is "it does not", f is "its
\* f-th call raises".  A Raise event always raises.
FaultPoints(block) ==
  LET r == RaiseAt(block) IN
  IF r > 0 THEN { f \in 1..r : CanRaise(block[f]) }
  ELSE {0} \cup { f \in 1..Len(block) : CanRaise(block[f]) }

\* The calls of a block completed when it stops at f.
Performed(block, f) == IF f = 0 THEN block ELSE SubSeq(block, 1, f - 1)

(***************************************************************************)
(* Conversation history: cleanup_old_screenshots.                          *)
(***************************************************************************)
Content(role, parts) == [role |-> role, parts |-> parts]

\* part.function_response and part.function_response.parts
\*   and part.function_response.name in PREDEFINED_COMPUTER_USE_FUNCTIONS
IsScreenshotPart(part) ==
  /\ part.function_response.set
  /\ part.function_response.parts # << >>
  /\ part.function_response.name \in PREDEFINED_COMPUTER_USE_FUNCTIONS

HasScreenshot(content) ==
  /\ content.role = "user"
  /\ content.parts # << >>
  /\ \E k \in 1..Len(content.parts) : IsScreenshotPart(content.parts[k])

DropScreenshots(content) ==
  [content EXCEPT !.parts =
     [k \in 1..Len(content.parts) |->
        IF IsScreenshotPart(content.parts[k])
        THEN [content.parts[k] EXCEPT !.function_response.parts = << >>]
        ELSE content.parts[k]]]

\* The scan `for content in reversed(contents)`: i is the position reached,
\* n is turns_with_screenshots so far.
RECURSIVE CleanupFrom(_, _, _)
CleanupFrom(cs, i, n) ==
  IF i = 0 THEN cs
  ELSE IF HasScreenshot(cs[i])
       THEN IF n + 1 > MAX_RECENT_TURNS_WITH_SCREENSHOTS
            THEN CleanupFrom([cs EXCEPT ![i] = DropScreenshots(cs[i])], i - 1, n + 1)
            ELSE CleanupFrom(cs, i - 1, n + 1)
       ELSE CleanupFrom(cs, i - 1, n)

cleanup_old_screenshots_drops_oldest(cs) ==
  LET T == { i \in 1..Len(cs) : HasScreenshot(cs[i]) } IN
  IF T = {} THEN cs
  ELSE LET o == CHOOSE i \in T : \A j \in T : i <= j
       IN  [cs EXCEPT ![o] = DropScreenshots(cs[o])]

cleanup_old_screenshots_drops_first_image(cs) ==
  LET c == CleanupFrom(cs, Len(cs), 0) IN
  [i \in 1..Len(c) |->
     IF i = 1 /\ c # cs
     THEN [c[i] EXCEPT !.parts = [k \in 1..Len(c[i].parts) |->
                                    [c[i].parts[k] EXCEPT !.inline_data = ""]]]
     ELSE c[i]]

cleanup_old_screenshots(cs) == CleanupFrom(cs, Len(cs), 0)

(***************************************************************************)
(* Structured-result extraction: extract_structured_data_from_response     *)
(* (main.py 674-740), on the text itself.  The JSON reader covers what the *)
(* responses of RoiTexts use: one flat object whose values are strings     *)
(* without escapes, decimal numbers without exponent, null, true, false or *)
(* Infinity.                                                               *)
(***************************************************************************)
Ch(s, i) == IF i >= 1 /\ i <= Len(s) THEN SubSeq(s, i, i) ELSE ""

\* Whether p occurs in s at position i.
At(s, i, p) == i >= 1 /\ i + Len(p) - 1 <= Len(s) /\ SubSeq(s, i, i + Len(p) - 1) = p

Least(S) == CHOOSE i \in S : \A j \in S : i <= j

Digits == { "0", "1", "2", "3", "4", "5", "6", "7", "8", "9" }

\* \s of the re module, for the characters the responses use.
Whitespace == { " ", "\t", "\n", "\r" }

DigitVal(c) ==
  CASE c = "0" -> 0 [] c = "1" -> 1 [] c = "2" -> 2 [] c = "3" -> 3
    [] c = "4" -> 4 [] c = "5" -> 5 [] c = "6" -> 6 [] c = "7" -> 7
    [] c = "8" -> 8 [] c = "9" -> 9

\* int(s) for a string of decimal digits.
RECURSIVE IntOfDigits(_)
IntOfDigits(s) ==
  IF s = "" THEN 0
  ELSE 10 * IntOfDigits(SubSeq(s, 1, Len(s) - 1)) + DigitVal(Ch(s, Len(s)))

AllIn(s, class) == \A i \in 1..Len(s) : Ch(s, i) \in class

\* The first position at or after `from` where p occurs in s; 0 if none.
Find(s, p, from) ==
  LET hits == { i \in from..(Len(s) - Len(p) + 1) : At(s, i, p) }
  IN  IF hits = {} THEN 0 ELSE Least(hits)

\* The first position at or after i whose character is outside class.
RECURSIVE SkipClass(_, _, _)
SkipClass(s, i, class) ==
  IF i <= Len(s) /\ Ch(s, i) \in class THEN SkipClass(s, i + 1, class) ELSE i

\* s[:n]
Truncate(s, n) == IF Len(s) <= n THEN s ELSE SubSeq(s, 1, n)

RECURSIVE Remove(_, _)
Remove(s, c) ==
  IF s = "" THEN ""
  ELSE (IF Head(s) = c THEN "" ELSE Head(s)) \o Remove(Tail(s), c)

\* str.strip(), as float() applies it to its argument.
Strip(s) ==
  LET first == SkipClass(s, 1, Whitespace)
      lasts == { j \in first..Len(s) : Ch(s, j) \notin Whitespace }
  IN  IF lasts = {} THEN ""
      ELSE SubSeq(s, first, CHOOSE j \in lasts : \A k \in lasts : k <= j)

\* re.search(r'\{[^{}]*"roi_percentage"[^{}]*\}', s, re.DOTALL).group(0): the
\* leftmost brace pair without a brace inside that holds the quoted key; ""
\* when there is no match (json_match below).
\* The position of the brace that closes the one at i, if the text between
\* them holds no brace and holds the quoted key; else 0.
ClosingBrace(s, i, j) ==
  IF Ch(s, i) = "{" /\ Ch(s, j) = "}" /\ Find(SubSeq(s, i + 1, j - 1), "\"roi_percentage\"", 1) # 0
  THEN j ELSE 0

MatchedObject(s, i) ==
  ClosingBrace(s, i, SkipClass(s, i + 1, { Ch(s, k) : k \in 1..Len(s) } \ { "{", "}" }))

LeftmostObject(s, hits) ==
  IF hits = {} THEN "" ELSE SubSeq(s, Least(hits), MatchedObject(s, Least(hits)))

json_match(s) == LeftmostObject(s, { i \in 1..Len(s) : MatchedObject(s, i) # 0 })

\* JSON values and tokens.
JsonValue(kind, text, num) == [kind |-> kind, text |-> text, num |-> num]

\* -?(0|[1-9][0-9]*)(\.[0-9]+)?
IsJsonNumber(t) ==
  LET body == IF Ch(t, 1) = "-" THEN SubSeq(t, 2, Len(t)) ELSE t
      dot  == Find(body, ".", 1)
      ip   == IF dot = 0 THEN body ELSE SubSeq(body, 1, dot - 1)
      fp   == IF dot = 0 THEN "0" ELSE SubSeq(body, dot + 1, Len(body))
  IN  /\ ip # "" /\ AllIn(ip, Digits)
      /\ (Len(ip) > 1 => Ch(ip, 1) # "0")
      /\ fp # "" /\ AllIn(fp, Digits)

\* int(float(t)) for a decimal numeral, with optional sign and fraction:
\* the integer part, since int() truncates toward zero.
IntOfNumeral(t) ==
  LET neg  == Ch(t, 1) = "-"
      body == IF Ch(t, 1) \in { "-", "+" } THEN SubSeq(t, 2, Len(t)) ELSE t
      dot  == Find(body, ".", 1)
      ip   == IF dot = 0 THEN body ELSE SubSeq(body, 1, dot - 1)
  IN  IF neg THEN 0 - IntOfDigits(ip) ELSE IntOfDigits(ip)

\* Whether the numeral is 0, 0.0, -0.00, ...: the numbers Python takes as false.
IsZeroNumeral(t) == AllIn(t, { "0", "-", "+", "." })

\* The numerals float() reads from a string, among those without exponent,
\* underscore, inf or nan: [+-]?digits[.digits] | [+-]?.digits
IsFloatString(t) ==
  LET body == IF Ch(t, 1) \in { "-", "+" } THEN SubSeq(t, 2, Len(t)) ELSE t
      dot  == Find(body, ".", 1)
      ip   == IF dot = 0 THEN body ELSE SubSeq(body, 1, dot - 1)
      fp   == IF dot = 0 THEN "" ELSE SubSeq(body, dot + 1, Len(body))
  IN  /\ AllIn(ip, Digits) /\ AllIn(fp, Digits)
      /\ ip \o fp # ""

Token(kind, text) == [kind |-> kind, text |-> text]

JsonLiterals == { "null", "true", "false", "Infinity", "-Infinity", "NaN" }

\* The tokens of a JSON text from position i on; a token "bad" where the
\* scanner of json.loads stops.
RECURSIVE Tokens(_, _)
Tokens(s, i) ==
  LET j == SkipClass(s, i, Whitespace)
      c == Ch(s, j)
  IN  IF j > Len(s) THEN << >>
      ELSE IF c \in { "{", "}", ":", "," } THEN << Token(c, c) >> \o Tokens(s, j + 1)
      ELSE IF c = "\""
           THEN LET e == Find(s, "\"", j + 1)
                IN  IF e = 0 \/ Find(SubSeq(s, j + 1, e - 1), "\\", 1) # 0
                               \/ Find(SubSeq(s, j + 1, e - 1), "\n", 1) # 0
                    THEN << Token("bad", "") >>
                    ELSE << Token("string", SubSeq(s, j + 1, e - 1)) >> \o Tokens(s, e + 1)
      ELSE LET lits == { l \in JsonLiterals : At(s, j, l) }
           IN  IF lits # {}
               THEN LET l == CHOOSE l \in lits : TRUE
                    IN  << Token(l, l) >> \o Tokens(s, j + Len(l))
               ELSE LET e == SkipClass(s, j, Digits \cup { "-", "." })
                        t == SubSeq(s, j, e - 1)
                    IN  IF IsJsonNumber(t) /\ Ch(s, e) \notin { "e", "E" }
                        THEN << Token("number", t) >> \o Tokens(s, e)
                        ELSE << Token("bad", "") >>

IsValueToken(t) == t.kind \in { "string", "number" } \cup JsonLiterals

\* The members of a flat object, as << key, value token >> pairs in the order
\* of the text; ok is FALSE where json.loads raises JSONDecodeError.
Decoded(ok, members) == [ok |-> ok, members |-> members]

RECURSIVE Members(_, _)
Members(ts, first) ==
  IF first /\ Len(ts) = 1 /\ ts[1].kind = "}" THEN Decoded(TRUE, << >>)
  ELSE IF Len(ts) >= 4 /\ ts[1].kind = "string" /\ ts[2].kind = ":" /\ IsValueToken(ts[3])
       THEN IF ts[4].kind = "}"
            THEN Decoded(Len(ts) = 4, << << ts[1].text, ts[3] >> >>)
            ELSE IF ts[4].kind = ","
                 THEN LET rest == Members(SubSeq(ts, 5, Len(ts)), FALSE)
                      IN  Decoded(rest.ok, << << ts[1].text, ts[3] >> >> \o rest.members)
                 ELSE Decoded(FALSE, << >>)
       ELSE Decoded(FALSE, << >>)

\* json.loads(json_str) for the text of one object.
json_loads(s) ==
  LET ts == Tokens(s, 1)
  IN  IF Len(ts) >= 2 /\ ts[1].kind = "{"
      THEN Members(Tail(ts), TRUE)
      ELSE Decoded(FALSE, << >>)

\* `key in data`, data.get(key): the last member of that name.
InData(data, key) == \E i \in 1..Len(data) : data[i][1] = key

DataGet(data, key) ==
  data[CHOOSE i \in 1..Len(data) :
         data[i][1] = key /\ \A j \in (i + 1)..Len(data) : data[j][1] # key][2]

\* `if v`: the truth value of a JSON value.
Truthy(v) ==
  CASE v.kind = "string" -> v.text # ""
    [] v.kind = "number" -> ~IsZeroNumeral(v.text)
    [] v.kind = "true" -> TRUE
    [] v.kind \in { "false", "null" } -> FALSE
    [] OTHER -> TRUE

\* `int(float(v)) if v else 0`: [raised |-> the exception's class or "",
\* val |-> the int].
Converted(exception, val) == [raised |-> exception, val |-> val]

IntFloat_no_default(v) ==
  IF v.kind = "true" THEN Converted("", 1)
  ELSE IF v.kind = "false" THEN Converted("", 0)
  ELSE IF v.kind = "number" THEN Converted("", IntOfNumeral(v.text))
  ELSE IF v.kind \in { "Infinity", "-Infinity" } THEN Converted("OverflowError", 0)
  ELSE IF v.kind = "NaN" THEN Converted("ValueError", 0)
  ELSE IF IsFloatString(Strip(v.text)) THEN Converted("", IntOfNumeral(Strip(v.text)))
  ELSE Converted("ValueError", 0)

IntFloat(v) == IF Truthy(v) THEN IntFloat_no_default(v) ELSE Converted("", 0)

RoiKeys == { "roi_percentage", "payback_months", "annual_savings" }

\* What extract_structured_data_from_response does: it returns a dict (has
\* is the set of its keys) or raises.
Returned(has, roi, payback, savings) ==
  [raised |-> "", message |-> "", has |-> has, roi_percentage |-> roi,
   payback_months |-> payback, annual_savings |-> savings]

Raised(exception, message) ==
  [raised |-> exception, message |-> message, has |-> {}, roi_percentage |-> 0,
   payback_months |-> 0, annual_savings |-> 0]

\* The JSON branch (main.py 692-719): a dict, an exception that leaves the
\* function, or "fallback" when the branch ends without a return.  The three
\* conversions are made in the order of the dict display.
JsonConverted(roi_pct, payback, savings) ==
  IF roi_pct.raised = "OverflowError" THEN Raised("OverflowError", "cannot convert float infinity to integer")
  ELSE IF roi_pct.raised # "" THEN Raised("fallback", "")
  ELSE IF payback.raised = "OverflowError" THEN Raised("OverflowError", "cannot convert float infinity to integer")
  ELSE IF payback.raised # "" THEN Raised("fallback", "")
  ELSE IF savings.raised = "OverflowError" THEN Raised("OverflowError", "cannot convert float infinity to integer")
  ELSE IF savings.raised # "" THEN Raised("fallback", "")
  ELSE Returned(RoiKeys, roi_pct.val, payback.val, savings.val)

JsonData(decoded) ==
  IF ~decoded.ok THEN Raised("fallback", "")
  ELSE IF \E k \in RoiKeys : ~InData(decoded.members, k) THEN Raised("fallback", "")
  ELSE IF \E k \in RoiKeys : DataGet(decoded.members, k).kind = "null"
  THEN Raised("fallback", "")
  ELSE JsonConverted(IntFloat(DataGet(decoded.members, "roi_percentage")),
                     IntFloat(DataGet(decoded.members, "payback_months")),
                     IntFloat(DataGet(decoded.members, "annual_savings")))

JsonText(json_str) ==
  IF json_str = "" THEN Raised("fallback", "") ELSE JsonData(json_loads(json_str))

JsonBranch(final_response) == JsonText(json_match(final_response))

\* re.search(first [_\s]* second [:\s]* \$? (class+), s, re.IGNORECASE)
\* .group(1), as Captured below; "" when there is no match.  The optional $
\* is part of the savings pattern only.
AtNoCase(s, i, p) == i + Len(p) - 1 <= Len(s) /\ Lower(SubSeq(s, i, i + Len(p) - 1)) = p

\* Where the group starts if the pattern matches from position i; else 0.
GroupAt(s, k, dollar, class) ==
  IF dollar /\ Ch(s, k) = "$" /\ Ch(s, k + 1) \in class THEN k + 1
  ELSE IF Ch(s, k) \in class THEN k
  ELSE 0

SecondAt(s, j, second, dollar, class) ==
  IF AtNoCase(s, j, second)
  THEN GroupAt(s, SkipClass(s, j + Len(second), { ":" } \cup Whitespace), dollar, class)
  ELSE 0

GroupStart(s, i, first, second, dollar, class) ==
  IF AtNoCase(s, i, first)
  THEN SecondAt(s, SkipClass(s, i + Len(first), { "_" } \cup Whitespace), second, dollar, class)
  ELSE 0

GroupFrom(s, start, class) == SubSeq(s, start, SkipClass(s, start, class) - 1)

LeftmostGroup(s, hits, first, second, dollar, class) ==
  IF hits = {} THEN ""
  ELSE GroupFrom(s, GroupStart(s, Least(hits), first, second, dollar, class), class)

Captured(s, first, second, dollar, class) ==
  LeftmostGroup(s, { i \in 1..Len(s) : GroupStart(s, i, first, second, dollar, class) # 0 },
                first, second, dollar, class)

\* The fallback patterns (main.py 721-740).
FallbackKeys(roi_match, payback_match, savings_match) ==
  (IF roi_match # "" THEN { "roi_percentage" } ELSE {})
    \cup (IF payback_match # "" THEN { "payback_months" } ELSE {})
    \cup (IF savings_match # "" THEN { "annual_savings" } ELSE {})

FallbackResult(final_response, has, roi_match, payback_match, savings_match, savings_str) ==
  IF savings_match # "" /\ savings_str = ""
  THEN Raised("ValueError", "invalid literal for int() with base 10: ''")
  ELSE IF Cardinality(has) = 3
  THEN Returned(has, IntOfDigits(roi_match), IntOfDigits(payback_match),
                IntOfDigits(savings_str))
  ELSE Raised("ValueError", "Could not extract ROI values from response: "
                              \o Truncate(final_response, 200) \o "...")

FallbackMatched(final_response, roi_match, payback_match, savings_match) ==
  FallbackResult(final_response, FallbackKeys(roi_match, payback_match, savings_match),
                 roi_match, payback_match, savings_match, Remove(savings_match, ","))

Fallback(final_response) ==
  FallbackMatched(final_response,
                  Captured(final_response, "roi", "percentage", FALSE, Digits),
                  Captured(final_response, "payback", "period", FALSE, Digits),
                  Captured(final_response, "annual", "savings", TRUE, Digits \cup { "," }))

JsonOrFallback(j, final_response) ==
  IF j.raised = "fallback" THEN Fallback(final_response) ELSE j

extract_structured_data_from_response(final_response) ==
  IF final_response = "" THEN Raised("ValueError", "Empty response from Gemini")
  ELSE JsonOrFallback(JsonBranch(final_response), final_response)

(***************************************************************************)
(* The workflow endpoints /diagram and /roi: handle_diagram (main.py       *)
(* 795-904) and handle_roi (main.py 908-1056).  Each handler is one step:  *)
(* it validates the request body, runs execute_browser_task, and answers.  *)
(* The agent loop, which Spec models, is here what it hands back to the    *)
(* handler: a Result or an exception.                                      *)
(***************************************************************************)
\* str(n)
RECURSIVE NatToString(_)
NatToString(n) ==
  IF n < 10 THEN CHOOSE d \in Digits : DigitVal(d) = n
  ELSE NatToString(n \div 10) \o (CHOOSE d \in Digits : DigitVal(d) = n % 10)

str(n) == IF n < 0 THEN "-" \o NatToString(0 - n) ELSE NatToString(n)

\* request.get_json(): given is FALSE for a body that is None or {}; a key
\* that is absent holds the empty value, which data.get(key) takes as false
\* like the key's absence; has holds the optional keys that are present.
NoData ==
  [given |-> FALSE, has |-> {}, opportunity_id |-> "", company_name |-> "",
   products |-> << >>, products_is_list |-> TRUE, roi_sheet_url |-> "",
   total_initial_investment_cost |-> 0, average_annual_cash_flow |-> 0,
   annual_profit |-> 0, employee_count |-> 0]

DiagramBody ==
  [NoData EXCEPT !.given = TRUE, !.opportunity_id = "006abc", !.company_name = "Acme",
                 !.products = << "Sales Cloud", "MuleSoft" >>]

DiagramBodies ==
  { NoData, DiagramBody,
    [DiagramBody EXCEPT !.products = << "Sales Cloud" >>],
    [DiagramBody EXCEPT !.company_name = "", !.products = << >>],
    [DiagramBody EXCEPT !.products_is_list = FALSE] }

RoiBody ==
  [NoData EXCEPT !.given = TRUE, !.opportunity_id = "006abc", !.company_name = "Acme",
                 !.total_initial_investment_cost = 500000,
                 !.average_annual_cash_flow = 200000,
                 !.roi_sheet_url = "https://docs.google.com/spreadsheets/d/T"]

RoiBodies ==
  { NoData, RoiBody,
    [RoiBody EXCEPT !.roi_sheet_url = ""],
    [RoiBody EXCEPT !.total_initial_investment_cost = 0 - 1],
    [RoiBody EXCEPT !.has = { "annual_profit" }, !.annual_profit = 50000000],
    [RoiBody EXCEPT !.has = { "annual_profit" }, !.annual_profit = 0 - 1],
    [RoiBody EXCEPT !.has = { "employee_count" }, !.employee_count = 0 - 1] }

\* jsonify(...): has is the set of keys of the JSON object; a key that is
\* absent holds the empty value.  final_response_preview "" stands for None.
NoResponse ==
  [has |-> {}, status |-> "", error |-> "", error_type |-> "", actions_taken |-> << >>,
   final_response |-> "", final_response_preview |-> "", lucidchart_url |-> "",
   sheet_url |-> "", roi_percentage |-> 0, payback_months |-> 0, annual_savings |-> 0,
   screenshot_b64 |-> "", message |-> ""]

Answer(code, response) == [code |-> code, response |-> response]

ErrorResponse(error, error_type) ==
  [NoResponse EXCEPT !.has = { "status", "error", "error_type" }, !.status = "error",
                     !.error = error, !.error_type = error_type]

\* What execute_browser_task hands back: a Result, or an exception.
LoopOutcome(raised, r) == [raised |-> raised, result |-> r]

NoExtraction == Raised("", "")

\* [field for field in required_fields if not data.get(field)]
RECURSIVE MissingFields(_, _)
MissingFields(required, data) ==
  IF required = << >> THEN << >>
  ELSE (IF ~data.given THEN << >>
        ELSE LET f == Head(required)
                 empty == CASE f = "opportunity_id" -> data.opportunity_id = ""
                            [] f = "company_name" -> data.company_name = ""
                            [] f = "products" -> data.products = << >>
                            [] f = "roi_sheet_url" -> data.roi_sheet_url = ""
                            [] f = "total_initial_investment_cost" ->
                                 data.total_initial_investment_cost = 0
                            [] f = "average_annual_cash_flow" ->
                                 data.average_annual_cash_flow = 0
             IN  IF empty THEN << f >> ELSE << >>)
       \o MissingFields(Tail(required), data)

\* The checks of the body that both handlers make first: whether the body
\* passes them, and the answer if it does not.
Validated(required, data) == data.given /\ MissingFields(required, data) = << >>

ValidationAnswer(required, data) ==
  IF ~data.given
  THEN Answer(400, ErrorResponse("No JSON data provided", "validation_error"))
  ELSE Answer(400, ErrorResponse("Missing required fields: "
                                   \o Join(MissingFields(required, data), ", "),
                                 "validation_error"))

\* The answer to a loop result that is not completed (main.py 852-859,
\* 997-1007).
DiagramNotCompleted_as_completed(r) ==
  Answer(200, [NoResponse EXCEPT !.has = { "status", "error", "actions_taken" },
                                 !.status = "completed",
                                 !.error = r.final_response,
                                 !.actions_taken = r.actions_taken])

DiagramNotCompleted(r) ==
  Answer(500, [ErrorResponse(r.final_response, "execution_error")
                 EXCEPT !.has = @ \cup { "actions_taken" },
                        !.actions_taken = r.actions_taken])

RoiNotCompleted(r) ==
  Answer(500, [ErrorResponse(IF r.final_response # "" THEN r.final_response
                             ELSE "Task did not complete successfully. The spreadsheet may have been filled, but Gemini did not return a completion response.",
                             "execution_error")
                 EXCEPT !.has = @ \cup { "actions_taken", "final_response_preview" },
                        !.actions_taken = r.actions_taken,
                        !.final_response_preview = Truncate(r.final_response, 500)])

\* re.search(r'https?://[^\s]*lucid\.app[^\s]*', s).group(0): from the
\* leftmost scheme whose run of non-blank characters holds lucid.app, to the
\* end of that run; "" when there is no match.
LucidUrlEnd(s, i, after, runEnd) ==
  IF Find(SubSeq(s, after, runEnd), "lucid.app", 1) # 0 THEN runEnd ELSE 0

LucidUrlAt(s, i) ==
  IF At(s, i, "https://")
  THEN LucidUrlEnd(s, i, i + 8, SkipClass(s, i, { Ch(s, k) : k \in 1..Len(s) } \ Whitespace) - 1)
  ELSE IF At(s, i, "http://")
  THEN LucidUrlEnd(s, i, i + 7, SkipClass(s, i, { Ch(s, k) : k \in 1..Len(s) } \ Whitespace) - 1)
  ELSE 0

LeftmostLucidUrl(s, hits) ==
  IF hits = {} THEN "" ELSE SubSeq(s, Least(hits), LucidUrlAt(s, Least(hits)))

LucidUrlMatch(s) == LeftmostLucidUrl(s, { i \in 1..Len(s) : LucidUrlAt(s, i) # 0 })

\* main.py 861-877
UrlOrFinal(found, final_url) ==
  IF found = "" \/ Find(found, "lucid.app", 1) = 0 THEN final_url ELSE found

MatchOrFinal(match, final_url) == IF match # "" THEN match ELSE final_url

LucidchartUrl(r) ==
  UrlOrFinal(IF Find(r.final_response, "lucid.app", 1) # 0
             THEN MatchOrFinal(LucidUrlMatch(r.final_response), r.final_url)
             ELSE r.final_url,
             r.final_url)

\* handle_diagram from its try block on, given what build_diagram_task_
\* instructions and execute_browser_task do: credentials is whether the
\* Lucidchart credentials are found (main.py 489-523).
DiagramAnswer(data, credentials, o) ==
  IF ~credentials
  THEN Answer(400, ErrorResponse("Cannot build diagram task: Lucidchart credentials not found in environment variables or Secret Manager",
                                 "validation_error"))
  ELSE IF o.raised # "" THEN Answer(500, ErrorResponse(o.raised, "execution_error"))
  ELSE IF o.result.status # "completed" THEN DiagramNotCompleted(o.result)
  ELSE Answer(200,
         [NoResponse EXCEPT
            !.has = { "status", "lucidchart_url", "screenshot_b64", "message",
                      "actions_taken" },
            !.status = "completed",
            !.lucidchart_url = LucidchartUrl(o.result),
            !.screenshot_b64 = o.result.final_screenshot_b64,
            !.message = "Created diagram with " \o str(Len(data.products))
                          \o " component" \o (IF Len(data.products) # 1 THEN "s" ELSE "")
                          \o " for " \o data.company_name,
            !.actions_taken = o.result.actions_taken])

DiagramRequired == << "opportunity_id", "company_name", "products" >>

handle_diagram(data, credentials, o) ==
  IF ~Validated(DiagramRequired, data) THEN ValidationAnswer(DiagramRequired, data)
  ELSE IF ~data.products_is_list
  THEN Answer(400, ErrorResponse("products must be a non-empty list", "validation_error"))
  ELSE DiagramAnswer(data, credentials, o)

\* The answer to a ValueError of the extraction (main.py 1013-1023).
ExtractionFailed_drops_text(r, e) ==
  Answer(500, [ErrorResponse("Could not extract ROI values from response: " \o e,
                             "execution_error")
                 EXCEPT !.has = @ \cup { "actions_taken" },
                        !.actions_taken = r.actions_taken])

ExtractionFailed(r, e) ==
  Answer(500, [ErrorResponse("Could not extract ROI values from response: " \o e,
                             "execution_error")
                 EXCEPT !.has = @ \cup { "final_response", "actions_taken" },
                        !.final_response = Truncate(r.final_response, 1000),
                        !.actions_taken = r.actions_taken])

\* handle_roi after the loop completed, roi_data being what the extraction
\* did (main.py 1009-1042).
RoiExtracted(data, r, roi_data) ==
  IF roi_data.raised = "ValueError" THEN ExtractionFailed(r, roi_data.message)
  ELSE IF roi_data.raised # ""
  THEN Answer(500, ErrorResponse(roi_data.message, "execution_error"))
  ELSE Answer(200,
         [NoResponse EXCEPT
            !.has = { "status", "sheet_url", "roi_percentage", "payback_months",
                      "annual_savings", "screenshot_b64", "message", "actions_taken" },
            !.status = "completed",
            !.sheet_url = data.roi_sheet_url,
            !.roi_percentage = roi_data.roi_percentage,
            !.payback_months = roi_data.payback_months,
            !.annual_savings = roi_data.annual_savings,
            !.screenshot_b64 = r.final_screenshot_b64,
            !.message = "ROI model shows " \o str(roi_data.roi_percentage)
                          \o "% five-year return for " \o data.company_name,
            !.actions_taken = r.actions_taken])

\* handle_roi from its try block on; roi_data is what the extraction does
\* with the final response.
RoiAnswer(data, o, roi_data) ==
  IF o.raised # "" THEN Answer(500, ErrorResponse(o.raised, "execution_error"))
  ELSE IF o.result.status # "completed" THEN RoiNotCompleted(o.result)
  ELSE RoiExtracted(data, o.result, roi_data)

RoiRequired ==
  << "opportunity_id", "company_name", "total_initial_investment_cost",
     "average_annual_cash_flow", "roi_sheet_url" >>

handle_roi(data, o, roi_data) ==
  IF ~Validated(RoiRequired, data) THEN ValidationAnswer(RoiRequired, data)
  ELSE IF data.total_initial_investment_cost < 0 \/ data.average_annual_cash_flow <= 0
  THEN Answer(400, ErrorResponse("total_initial_investment_cost and average_annual_cash_flow must be valid numbers (investment >= 0, cash flow > 0)",
                                 "validation_error"))
  ELSE IF "annual_profit" \in data.has /\ data.annual_profit < 0
  THEN Answer(400, ErrorResponse("Invalid optional field: annual_profit must be >= 0",
                                 "validation_error"))
  ELSE IF "employee_count" \in data.has /\ data.employee_count < 0
  THEN Answer(400, ErrorResponse("Invalid optional field: employee_count must be >= 0",
                                 "validation_error"))
  ELSE RoiAnswer(data, o, roi_data)

\* Whether the handler gets as far as calling execute_browser_task.
RunsLoop(endpoint, data, credentials) ==
  IF endpoint = "/diagram"
  THEN Validated(DiagramRequired, data) /\ data.products_is_list /\ credentials
  ELSE /\ Validated(RoiRequired, data)
       /\ data.total_initial_investment_cost >= 0
       /\ data.average_annual_cash_flow > 0
       /\ ~("annual_profit" \in data.has /\ data.annual_profit < 0)
       /\ ~("employee_count" \in data.has /\ data.employee_count < 0)

\* One HTTP request to a workflow endpoint and what became of it: roi_data
\* is what the extraction did, if the handler called it.
NoHttp ==
  [endpoint |-> "", data |-> NoData, stage |-> "idle", ran_loop |-> FALSE,
   loop_raised |-> "", roi_data |-> NoExtraction, code |-> 0, response |-> NoResponse]

\* The lazily created inference client (main.py 70-91).  instance is the
\* module global _client, 0 for None, otherwise the number of the
\* genai.Client object it refers to; constructed counts the genai.Client
\* objects created in the process.  For every handler: at is where its
\* get_client call stands, new is the object it has constructed and not yet
\* assigned, got is what its calls have returned.
Handlers == 1..MaxHandlers

NoClient ==
  [instance |-> 0, constructed |-> 0,
   at |-> [h \in Handlers |-> "idle"],
   new |-> [h \in Handlers |-> 0],
   got |-> [h \in Handlers |-> << >>]]

(***************************************************************************)
(* The state of one task execution.                                        *)
(***************************************************************************)
VARIABLES
  client,              \* the module global _client and the get_client calls under way
  http,                \* the HTTP request a workflow endpoint serves, if any
  tabs,                \* the URLs of the pages the browser opened beside `page`
  entry,               \* the agent loop that runs: one of Loops
  pc,                  \* where the execution stands
  turn,                \* the loop variable of `for turn in range(...)`
  attempt,             \* the loop variable of get_model_response
  delays,              \* the time.sleep delays of the current get_model_response
  candidate,           \* response.candidates[0] of the last response
  partIx,              \* the position of `for part in candidate.content.parts`
  function_responses,  \* the list built by the current iteration
  contents,            \* the conversation
  result,              \* the result dict of execute_browser_task
  url,                 \* page.url
  events,              \* the browser calls of the last step
  turnLog,             \* what the current iteration has logged
  exc,                 \* the exception leaving the function, "" if none
  closed,              \* how many times the finally clause has run
  requests,            \* how many inference requests the loop has made
  varied               \* the first iteration that left the plain script, or -1

vars ==
  << client, http, tabs, entry, pc, turn, attempt, delays, candidate, partIx, function_responses,
     contents, result, url, events, turnLog, exc, closed, requests, varied >>

loop == entry

\* run_local_agent keeps no result.
NoResult ==
  [status |-> "", actions_taken |-> << >>, final_url |-> "", final_response |-> "",
   final_screenshot_b64 |-> ""]

\* main.py 239-244
NewResult == [NoResult EXCEPT !.status = "in_progress"]

Tasks == { "search for X" }

ApiErrors == { "503 UNAVAILABLE", "429 RESOURCE_EXHAUSTED" }

BrowserErrors == { "TimeoutError" }

\* The state when the agent loop is entered: the page is on the start URL,
\* the conversation holds the task text and the first screenshot.
Init ==
  /\ client = NoClient
  /\ http = NoHttp
  /\ tabs = << >>
  /\ entry \in Loops
  /\ pc = "request"
  /\ turn = 0
  /\ attempt = 0
  /\ delays = << >>
  /\ candidate = NoCandidate
  /\ partIx = 0
  /\ function_responses = << >>
  /\ \E task \in Tasks :
       contents = << Content("user", << TextPart(task), ImagePart >>) >>
  /\ result = IF entry = "execute_browser_task" THEN NewResult ELSE NoResult
  /\ url = "https://www.google.com"
  /\ events = << >>
  /\ turnLog = << >>
  /\ exc = ""
  /\ closed = 0
  /\ requests = 0
  /\ varied = 0 - 1

(***************************************************************************)
(* The agent loop.                                                         *)
(***************************************************************************)
\* The end of one iteration, by `continue` or by falling off the body: the
\* for statement takes the next turn, or the loop is exhausted.
AfterIteration(t, l) == IF t + 1 < MaxTurns(l) THEN "request" ELSE "final"

Break_continue(t, l) == AfterIteration(t, l)

\* `break` (main.py 261, 267, 297; local_test.py 126, 142): the loop is left.
Break(t, l) == "final"

\* The log of the iteration: a new iteration starts with its first attempt.
LogSoFar == IF attempt = 0 THEN << >> ELSE turnLog

RequestsSoFar == IF attempt = 0 THEN requests + 1 ELSE requests

\* A step may leave the plain script (d) while the bound allows it.
Allowed(d) == ~d \/ varied < 0 \/ turn < varied + MaxVaried

VariedAfter(d) == IF d /\ varied < 0 THEN turn ELSE varied

Backoff_constant(k) == base_delay_s

\* delay = base_delay_s * (2 ** attempt)
Backoff(k) == base_delay_s * (2 ^ k)

ApiErrorResult_clears_log(r, msg) ==
  [r EXCEPT !.status = "error", !.final_response = "API error: " \o msg,
            !.actions_taken = << >>]

ApiErrorResult_no_message(r, msg) ==
  [r EXCEPT !.status = "error", !.final_response = "API error"]

\* result["status"] = "error"; result["final_response"] = f"API error: {str(e)}"
ApiErrorResult(r, msg) ==
  [r EXCEPT !.status = "error", !.final_response = "API error: " \o msg]

NoCandidatesResult_in_progress(r) ==
  [r EXCEPT !.final_response = "Empty response from model"]

\* result["status"] = "error"; result["final_response"] = "Empty response from model"
NoCandidatesResult(r) ==
  [r EXCEPT !.status = "error", !.final_response = "Empty response from model"]

\* One client.models.generate_content call raises.  get_model_response
\* sleeps and tries again, or re-raises on its last attempt, which the loop
\* turns into status error (main.py 258-261).  run_local_agent calls the
\* client directly, so there the exception leaves the function.  get_client()
\* (main.py 74-91) is taken to return its client.
ApiCallFails ==
  /\ pc = "request"
  /\ Allowed(TRUE)
  /\ varied' = VariedAfter(TRUE)
  /\ \E msg \in ApiErrors :
       /\ requests' = RequestsSoFar
       /\ IF loop = "execute_browser_task"
          THEN IF attempt < max_retries - 1
               THEN /\ delays' = Append(delays, Backoff(attempt))
                    /\ attempt' = attempt + 1
                    /\ turnLog' = Append(LogSoFar, "WARNING API call failed")
                    /\ UNCHANGED << pc, result, exc >>
               ELSE /\ result' = ApiErrorResult(result, msg)
                    /\ pc' = Break(turn, loop)
                    /\ turnLog' = Append(LogSoFar, "ERROR API call failed")
                    /\ UNCHANGED << delays, attempt, exc >>
          ELSE /\ pc' = "finally"
               /\ exc' = msg
               /\ turnLog' = LogSoFar
               /\ UNCHANGED << delays, attempt, result >>
  /\ events' = << >>
  /\ UNCHANGED << http, tabs, client, entry, turn, candidate, partIx, function_responses, contents,
                  url, closed >>

IsMalformedRetry_any_silent(c) == ~HasCalls(c.parts)

\* finish_reason == MALFORMED_FUNCTION_CALL and not any(part.function_call ...)
\* (main.py 276-277), for a candidate whose content and parts are not None.
IsMalformedRetry(c) ==
  c.finish_reason = "MALFORMED_FUNCTION_CALL" /\ ~HasCalls(c.parts)

\* The iterable of that generator, candidate.content.parts, is evaluated
\* before its filter: None content raises AttributeError, None parts
\* TypeError.  "" when the check does not raise.
MalformedCheckRaises(c) ==
  IF c.finish_reason # "MALFORMED_FUNCTION_CALL" THEN ""
  ELSE IF ~c.has_content THEN "AttributeError"
  ELSE IF ~c.has_parts THEN "TypeError"
  ELSE ""

\* main.py 282-286, local_test.py 133-135
has_function_calls(c) == c.has_content /\ c.parts # << >> /\ HasCalls(c.parts)

TextsOf(parts) ==
  LET keep == { i \in 1..Len(parts) : parts[i].text # "" }
      Nth(n) == CHOOSE i \in keep : Cardinality({ j \in keep : j < i }) = n - 1
  IN  [n \in 1..Cardinality(keep) |-> parts[Nth(n)].text]

FinalText_first_only(c) ==
  IF TextsOf(c.parts) = << >> THEN "" ELSE TextsOf(c.parts)[1]

\* " ".join([part.text for part in candidate.content.parts if part.text])
FinalText(c) == Join(TextsOf(c.parts), " ")

\* The responses that leave the plain script.
Deviation(r) == ~(r # << >> /\ r[1] \in PlainCandidates)

\* execute_browser_task, main.py 263-304, on a response.
MainResponds(r) ==
  IF r = << >>
  THEN /\ result' = NoCandidatesResult(result)
       /\ pc' = Break(turn, loop)
       /\ turnLog' = Append(LogSoFar, "WARNING Response has no candidates")
       /\ UNCHANGED << candidate, contents, turn, exc, partIx,
                       function_responses >>
  ELSE LET c == r[1] IN
       /\ candidate' = c
       /\ contents' = IF c.has_content
                      THEN Append(contents, Content("model", c.parts)) ELSE contents
       /\ IF MalformedCheckRaises(c) # ""
          THEN /\ pc' = "finally"
               /\ exc' = MalformedCheckRaises(c)
               /\ turnLog' = LogSoFar
               /\ UNCHANGED << result, turn, partIx,
                               function_responses >>
          ELSE IF IsMalformedRetry(c)
          THEN /\ pc' = AfterIteration(turn, loop)
               /\ turn' = turn + 1
               /\ turnLog' = Append(LogSoFar, "WARNING Malformed function call, retrying...")
               /\ UNCHANGED << result, exc, partIx, function_responses >>
          ELSE IF ~has_function_calls(c)
          THEN /\ result' = [result EXCEPT !.status = "completed",
                                           !.final_response = FinalText(c)]
               /\ pc' = Break(turn, loop)
               /\ turnLog' = Append(LogSoFar, "INFO Task completed")
               /\ UNCHANGED << turn, exc, partIx, function_responses >>
          ELSE /\ function_responses' = << >>
               /\ partIx' = 1
               /\ pc' = "exec"
               /\ turnLog' = LogSoFar
               /\ UNCHANGED << result, turn, exc >>

\* run_local_agent, local_test.py 124-145, on a response.
LocalResponds(r) ==
  IF r = << >>
  THEN /\ pc' = Break(turn, loop)
       /\ turnLog' = Append(LogSoFar, "PRINT No response from model")
       /\ UNCHANGED << candidate, contents, turn, exc, partIx,
                       function_responses, result >>
  ELSE LET c == r[1] IN
       /\ candidate' = c
       /\ contents' = IF c.has_content
                      THEN Append(contents, Content("model", c.parts)) ELSE contents
       /\ result' = result
       /\ IF ~has_function_calls(c)
          THEN IF ~c.has_content \/ ~c.has_parts
               THEN /\ pc' = "finally"
                    /\ exc' = IF ~c.has_content THEN "AttributeError" ELSE "TypeError"
                    /\ turnLog' = LogSoFar
                    /\ UNCHANGED << turn, partIx, function_responses >>
               ELSE /\ pc' = Break(turn, loop)
                    /\ turnLog' = Append(LogSoFar, "PRINT Response: " \o FinalText(c))
                    /\ UNCHANGED << turn, exc, partIx,
                                    function_responses >>
          ELSE /\ function_responses' = << >>
               /\ partIx' = 1
               /\ pc' = "exec"
               /\ turnLog' = LogSoFar
               /\ UNCHANGED << turn, exc >>

\* One client.models.generate_content call returns a response, and the loop
\* body runs up to its `for part in candidate.content.parts`.
ModelResponds ==
  /\ pc = "request"
  /\ \E r \in Responses :
       /\ Allowed(Deviation(r))
       /\ varied' = VariedAfter(Deviation(r))
       /\ IF loop = "execute_browser_task" THEN MainResponds(r) ELSE LocalResponds(r)
  /\ requests' = RequestsSoFar
  /\ attempt' = 0
  /\ delays' = << >>
  /\ events' = << >>
  /\ UNCHANGED << http, tabs, client, entry, url, closed >>

(***************************************************************************)
(* One action request: main.py 306-464, local_test.py 146-241.             *)
(***************************************************************************)
FrPart(fr) == [NoPart EXCEPT !.function_response = fr]

\* page.url once the calls `done` have completed.
UrlAfter(u, done) ==
  LET gotos == { i \in 1..Len(done) : done[i].op = "page.goto" } IN
  IF gotos = {} THEN u
  ELSE done[CHOOSE i \in gotos : \A j \in gotos : j <= i].s

ActionRecord(name, args) == [action |-> name, args |-> args]

\* extra_fr_fields["safety_acknowledgement"] = "true", main.py 321-326;
\* run_local_agent has no such field.
SafetyAcknowledged(l, args) ==
  l = "execute_browser_task" /\ ArgGet(args, "safety_decision", "") # ""

FunctionResponse(name, u, ack) ==
  [set |-> TRUE, name |-> name, url |-> u, safety_acknowledgement |-> ack,
   parts |-> << "image/png" >>]

\* What the action logs before and after its try block.
ActionLog(l, name, args, caught, e) ==
  (IF SafetyAcknowledged(l, args) THEN << "WARNING Safety decision required" >>
   ELSE << >>)
  \o (IF name \notin DispatchedNames(l) /\ ~caught
      THEN << "WARNING Unknown action: " \o name >> ELSE << >>)
  \o (IF caught
      THEN (IF l = "execute_browser_task"
            THEN << "ERROR Error executing " \o name \o ": " \o e >>
            ELSE << "PRINT Error: " \o e >>)
      ELSE << >>)

RecordAction_without_args(l, r, name, args, caught) ==
  IF l = "execute_browser_task"
  THEN [r EXCEPT !.actions_taken = Append(@, ActionRecord(name, NoArgs))]
  ELSE r

RecordAction_known_only(l, r, name, args, caught) ==
  IF l = "execute_browser_task" /\ name \in PREDEFINED_COMPUTER_USE_FUNCTIONS
  THEN [r EXCEPT !.actions_taken = Append(@, ActionRecord(name, args))]
  ELSE r

RecordAction_on_success(l, r, name, args, caught) ==
  IF l = "execute_browser_task" /\ ~caught
  THEN [r EXCEPT !.actions_taken = Append(@, ActionRecord(name, args))]
  ELSE r

\* result["actions_taken"].append(...), main.py 315-318, before the try.
RecordAction(l, r, name, args, caught) ==
  IF l = "execute_browser_task"
  THEN [r EXCEPT !.actions_taken = Append(@, ActionRecord(name, args))]
  ELSE r

OnException_sets_error(l, r) ==
  IF l = "execute_browser_task" THEN [r EXCEPT !.status = "error"] ELSE r

\* except Exception as e: logger.error(...), main.py 446-447; print(...),
\* local_test.py 215-216.  The result is left as it is.
OnException(l, r) == r

AddResponse_in_front(frs, fr) == << fr >> \o frs

\* function_responses.append(FunctionResponse(...)), main.py 453
AddResponse(frs, fr) == Append(frs, fr)

\* The step of `for part in candidate.content.parts` on a part that is not
\* a function call: nothing happens.
SkipPart ==
  /\ pc = "exec"
  /\ partIx <= Len(candidate.parts)
  /\ ~candidate.parts[partIx].function_call.set
  /\ partIx' = partIx + 1
  /\ events' = << >>
  /\ UNCHANGED << http, tabs, client, entry, pc, turn, attempt, delays, candidate, function_responses,
                  contents, result, url, turnLog, exc, closed, requests, varied >>

\* The step on a function call: the action is recorded, its try block runs
\* and may stop with an exception, which the except clause logs; then the
\* screenshot is taken and the function response built.  An exception of the
\* calls outside the try block leaves the function.
ExecuteAction ==
  /\ pc = "exec"
  /\ partIx <= Len(candidate.parts)
  /\ candidate.parts[partIx].function_call.set
  /\ LET fc == candidate.parts[partIx].function_call
         block == TryBlock(loop, fc.name, fc.args)
         after == AfterTry(loop)
     IN \E f \in FaultPoints(block), g \in FaultPoints(after),
           shot \in BOOLEAN, e \in BrowserErrors :
          LET caught == f # 0
              d == (f # 0 \/ g # 0 \/ ~shot)
              err == IF caught /\ block[f].op = "raise" THEN block[f].s ELSE e
              done == Performed(block, f)
              u == UrlAfter(url, done)
          IN /\ Allowed(d)
             /\ varied' = VariedAfter(d)
             /\ result' = LET rec == RecordAction(loop, result, fc.name, fc.args, caught)
                          IN  IF caught THEN OnException(loop, rec) ELSE rec
             /\ turnLog' = turnLog \o ActionLog(loop, fc.name, fc.args, caught, err)
             /\ url' = u
             /\ IF g # 0
                THEN /\ events' = done \o Performed(after, g)
                     /\ pc' = "finally"
                     /\ exc' = e
                     /\ UNCHANGED << partIx, function_responses >>
                ELSE IF ~shot
                THEN /\ events' = done \o after
                     /\ pc' = "finally"
                     /\ exc' = e
                     /\ UNCHANGED << partIx, function_responses >>
                ELSE /\ events' = done \o after \o << Screenshot >>
                     /\ function_responses' =
                          AddResponse(function_responses,
                                      FunctionResponse(fc.name, u,
                                                       SafetyAcknowledged(loop, fc.args)))
                     /\ partIx' = partIx + 1
                     /\ UNCHANGED << pc, exc >>
  /\ UNCHANGED << http, tabs, client, entry, turn, attempt, delays, candidate, contents, closed,
                  requests >>

Prune_never(l, cs) == cs

\* cleanup_old_screenshots(contents), main.py 475; run_local_agent has none.
Prune(l, cs) == IF l = "execute_browser_task" THEN cleanup_old_screenshots(cs) ELSE cs

\* The end of the iteration: the function responses become one user turn
\* (main.py 467-475, local_test.py 243-248) and the loop goes on.
AppendFunctionResponses ==
  /\ pc = "exec"
  /\ partIx > Len(candidate.parts)
  /\ contents' =
       Prune(loop,
             Append(contents,
                    Content("user", [k \in 1..Len(function_responses) |->
                                       FrPart(function_responses[k])])))
  /\ pc' = AfterIteration(turn, loop)
  /\ turn' = turn + 1
  /\ events' = << >>
  /\ UNCHANGED << http, tabs, client, entry, attempt, delays, candidate, partIx, function_responses,
                  result, url, turnLog, exc, closed, requests, varied >>

FinalState_only_when_completed(r, u) ==
  IF r.status = "completed"
  THEN [r EXCEPT !.final_screenshot_b64 = "b64(image/png)", !.final_url = u]
  ELSE r

\* result["final_screenshot_b64"] = base64.b64encode(final_screenshot).decode()
\* result["final_url"] = page.url                              (main.py 479-480)
FinalState(r, u) ==
  [r EXCEPT !.final_screenshot_b64 = "b64(image/png)", !.final_url = u]

\* After the loop: execute_browser_task takes the final screenshot and reads
\* page.url (main.py 477-482); run_local_agent prints the URL and waits for
\* the Enter key (local_test.py 250-255).  Then the function returns.
CaptureFinalState ==
  /\ pc = "final"
  /\ \E shot \in BOOLEAN, e \in BrowserErrors :
       /\ Allowed(~shot)
       /\ varied' = VariedAfter(~shot)
       /\ IF loop = "execute_browser_task"
          THEN IF shot
               THEN /\ result' = FinalState(result, url)
                    /\ events' = << Screenshot >>
                    /\ exc' = exc
               ELSE /\ exc' = e
                    /\ events' = << >>
                    /\ result' = result
          ELSE /\ shot
               /\ events' = << >>
               /\ UNCHANGED << result, exc >>
  /\ pc' = "finally"
  /\ UNCHANGED << http, tabs, client, entry, turn, attempt, delays, candidate, partIx,
                  function_responses, contents, url, turnLog, closed, requests >>

Finally_leaves_driver ==
  /\ pc = "finally"
  /\ closed' = closed + 1
  /\ events' = << Ev("browser.close", 0, 0, "") >>
  /\ pc' = "done"
  /\ UNCHANGED << http, tabs, client, entry, turn, attempt, delays, candidate, partIx,
                  function_responses, contents, result, url, turnLog, exc,
                  requests, varied >>

\* finally: browser.close(); playwright.stop()
Finally ==
  /\ pc = "finally"
  /\ closed' = closed + 1
  /\ events' = << Ev("browser.close", 0, 0, ""), Ev("playwright.stop", 0, 0, "") >>
  /\ pc' = "done"
  /\ UNCHANGED << http, tabs, client, entry, turn, attempt, delays, candidate, partIx,
                  function_responses, contents, result, url, turnLog, exc,
                  requests, varied >>

Next ==
  \/ ApiCallFails
  \/ ModelResponds
  \/ SkipPart
  \/ ExecuteAction
  \/ AppendFunctionResponses
  \/ CaptureFinalState
  \/ Finally

Spec == Init /\ [][Next]_vars

(***************************************************************************)
(* The action executor on its own: one responder turn is executed, from    *)
(* the state in which the loop enters `for part in candidate.content.parts`*)
(* on the first turn, for every action of the vocabulary and the range of  *)
(* normalized coordinates.                                                 *)
(***************************************************************************)
KeyChords ==
  { "Control+Shift+A", "Enter", "control+a", "Alt+Tab", "Meta+Shift+Z", "a+b+c+d" }

KeysArgs(ks) == [NoArgs EXCEPT !.has = {"keys"}, !.keys = ks]

DirectionArgs(d) == [NoArgs EXCEPT !.has = {"direction"}, !.direction = d]

TypeTextArgs ==
  { [XY(175, 350) EXCEPT !.has = {"x", "y", "text"} \cup opt, !.text = "hi",
                         !.clear_before_typing = c, !.press_enter = e] :
      opt \in SUBSET {"clear_before_typing", "press_enter"}, c \in BOOLEAN, e \in BOOLEAN }

ScrollAtArgs ==
  { [XY(700, 575) EXCEPT !.has = {"x", "y", "direction"} \cup opt,
                         !.direction = d, !.magnitude = m] :
      opt \in SUBSET {"magnitude"}, d \in {"up", "down", "left", "right", "diagonal"},
      m \in {0, 1, 400} }

DragArgs ==
  { [XY(175, 350) EXCEPT !.has = {"x", "y"} \cup opt,
                         !.destination_x = 999, !.destination_y = 0] :
      opt \in { {"destination_x", "destination_y"}, {"destination_x"} } }

UrlArgs(u) == [NoArgs EXCEPT !.has = {"url"}, !.url = u]

\* The function calls a responder turn is executed for.
ExecutorCalls ==
  { CallPart("click_at", XY(v, v)) : v \in 0..NormalizedMax }
  \cup { CallPart("click_at", [NoArgs EXCEPT !.has = {"x"}, !.x = 5]) }
  \cup { CallPart("hover_at", XY(350, 999)), SafetyPart, UnknownPart,
          CallPart("click_at", WithEmptySafety(XY(10, 999))) }
  \cup { CallPart("type_text_at", a) : a \in TypeTextArgs }
  \cup { CallPart("scroll_at", a) : a \in ScrollAtArgs }
  \cup { CallPart("scroll_document", DirectionArgs(d)) :
           d \in {"up", "down", "left", "right", "sideways"} }
  \cup { CallPart("drag_and_drop", a) : a \in DragArgs }
  \cup { CallPart("navigate", UrlArgs(u)) :
           u \in {"wikipedia.org", "http://example.com", "https://example.com"} }
  \cup { CallPart("key_combination", KeysArgs(ks)) : ks \in KeyChords }
  \cup { CallPart("key_combination", NoArgs) }
  \cup { CallPart(n, NoArgs) :
           n \in {"search", "go_back", "go_forward", "wait_5_seconds", "open_web_browser"} }

ExecutorCandidates ==
  { Candidate("STOP", TRUE, TRUE, << c >>) : c \in ExecutorCalls }
  \cup { Candidate("STOP", TRUE, TRUE, << TextPart("Typing now"), TypeTextPart >>) }

\* The state Init reaches by one ModelResponds step with candidate c.
InitExecutor ==
  /\ client = NoClient
  /\ http = NoHttp
  /\ tabs = << >>
  /\ entry \in Loops
  /\ pc = "exec"
  /\ turn = 0
  /\ attempt = 0
  /\ delays = << >>
  /\ candidate \in ExecutorCandidates
  /\ partIx = 1
  /\ function_responses = << >>
  /\ \E task \in Tasks :
       contents = << Content("user", << TextPart(task), ImagePart >>),
                     Content("model", candidate.parts) >>
  /\ result = IF entry = "execute_browser_task" THEN NewResult ELSE NoResult
  /\ url = "https://www.google.com"
  /\ events = << >>
  /\ turnLog = << >>
  /\ exc = ""
  /\ closed = 0
  /\ requests = 1
  /\ varied = 0

NextExecutor ==
  \/ SkipPart
  \/ ExecuteAction
  \/ AppendFunctionResponses
  \/ Finally

SpecExecutor == InitExecutor /\ [][NextExecutor]_vars

(***************************************************************************)
(* The workflow endpoints as a specification: a request has arrived at     *)
(* /diagram or /roi, and the handler answers it.                           *)
(***************************************************************************)
RoiTexts ==
  { "{\"roi_percentage\": 412, \"payback_months\": 8, \"annual_savings\": 847000}",
    "Here are the results:\n{\"roi_percentage\": 412.7, \"payback_months\": \"8\", \"annual_savings\": \" 847000 \"}\nDone",
    "{\"roi_percentage\": \"\", \"payback_months\": 8, \"annual_savings\": 847000}",
    "{\"roi_percentage\": null, \"payback_months\": 8, \"annual_savings\": 847000}",
    "{\"roi_percentage\": 412, \"payback_months\": 8}",
    "ROI Percentage: 412%, Payback Period: 8 months, Annual Savings: $847,000",
    "ROI percentage: 412, payback period: 8",
    "",
    "Done",
    "{\"roi_percentage\": \"412%\", \"payback_months\": 8, \"annual_savings\": 847000}",
    "{\"roi_percentage\": 0, \"payback_months\": 8, \"annual_savings\": 847000}",
    "{\"roi_percentage\": 412, \"payback_months\": 8, \"annual_savings\": Infinity}",
    "{\"roi_percentage\": 412 \"payback_months\": 8, \"annual_savings\": 847000}",
    "ROI percentage: 412, payback period: 8, annual savings: ,",
    "{\"roi_percentage\": false, \"payback_months\": 8, \"annual_savings\": 847000}",
    "{\"result\": {\"roi_percentage\": 412, \"payback_months\": 8, \"annual_savings\": 847000}}",
    "{\"roi_percentage\": null, \"payback_months\": 8, \"annual_savings\": 847000} roi_percentage 412 Payback_Period:8 annual savings $1,234",
    "{\"roi_percentage\": -3.9, \"payback_months\": true, \"annual_savings\": 0.0}",
    "{\"roi_percentage\": 412, \"payback_months\": 8, \"annual_savings\": 847000,}",
    "{\"roi_percentage\": 1, \"roi_percentage\": 412, \"payback_months\": 8, \"annual_savings\": NaN}",
    "{\"roi_percentage\": \"x\", \"payback_months\": 8, \"annual_savings\": Infinity}",
    "{\"note\": \"none\"} {\"roi_percentage\": 5, \"payback_months\": 6, \"annual_savings\": 7} roi percentage: 9",
    "payback period: 8 annual savings: $ 5 roi percentage 4",
    "roi percentage: 412 payback period: 8 annual savings: $,5," }

\* A final response of more than 1000 characters.
RECURSIVE Repeated(_, _)
Repeated(s, n) == IF n = 0 THEN "" ELSE s \o Repeated(s, n - 1)

LongText == Repeated("The sheet did not load. ", 45)

DiagramTexts ==
  { "Diagram created: https://lucid.app/documents/view/abc.",
    "See http://example.com and lucid.app" }

FinalUrls == { "https://www.google.com", "https://lucid.app/lucidchart/abc/edit" }

ActionLogs == { << >>, << ActionRecord("click_at", XY(10, 999)) >> }

\* The Results execute_browser_task returns: completed with the text of the
\* last responder turn, error with the text of the failure, or in_progress
\* with no text (main.py 239-244, 258-267, 286-295, 477-482).
LoopResults ==
  { [status |-> st, actions_taken |-> log, final_url |-> u, final_response |-> text,
     final_screenshot_b64 |-> "b64(image/png)"] :
      st \in { "completed" }, log \in ActionLogs, u \in FinalUrls,
      text \in RoiTexts \cup DiagramTexts \cup { LongText } }
  \cup
  { [status |-> "error", actions_taken |-> log, final_url |-> u, final_response |-> text,
     final_screenshot_b64 |-> "b64(image/png)"] :
      log \in ActionLogs, u \in FinalUrls,
      text \in { "API error: " \o msg : msg \in ApiErrors }
                 \cup { "Empty response from model" } }
  \cup
  { [status |-> "in_progress", actions_taken |-> log, final_url |-> u,
     final_response |-> "", final_screenshot_b64 |-> "b64(image/png)"] :
      log \in ActionLogs, u \in FinalUrls }

\* ... or the exception that leaves it.
LoopOutcomes ==
  { LoopOutcome("", r) : r \in LoopResults }
    \cup { LoopOutcome(e, NoResult) : e \in BrowserErrors }

InitWorkflow ==
  /\ client = NoClient
  /\ tabs = << >>
  /\ entry = "execute_browser_task"
  /\ pc = "handler"
  /\ turn = 0
  /\ attempt = 0
  /\ delays = << >>
  /\ candidate = NoCandidate
  /\ partIx = 0
  /\ function_responses = << >>
  /\ contents = << >>
  /\ result = NoResult
  /\ url = ""
  /\ events = << >>
  /\ turnLog = << >>
  /\ exc = ""
  /\ closed = 0
  /\ requests = 0
  /\ varied = 0
  /\ \/ \E data \in DiagramBodies :
          http = [NoHttp EXCEPT !.endpoint = "/diagram", !.data = data, !.stage = "received"]
     \/ \E data \in RoiBodies :
          http = [NoHttp EXCEPT !.endpoint = "/roi", !.data = data, !.stage = "received"]

\* The handler has answered.  The loop's outcome matters only if the handler
\* got as far as the call, and the extraction only if the loop completed.
Handled(answer, ran, o, roi_data) ==
  /\ http' = [http EXCEPT
                !.stage = "responded",
                !.ran_loop = ran,
                !.loop_raised = IF ran THEN o.raised ELSE "",
                !.roi_data = IF ran /\ http.endpoint = "/roi" /\ o.raised = ""
                                /\ o.result.status = "completed"
                             THEN roi_data ELSE NoExtraction,
                !.code = answer.code,
                !.response = answer.response]
  /\ result' = IF ran /\ o.raised = "" THEN o.result ELSE result
  /\ pc' = "done"
  /\ UNCHANGED << tabs, client, entry, turn, attempt, delays, candidate, partIx, function_responses,
                  contents, url, events, turnLog, exc, closed, requests, varied >>

HandleDiagram ==
  /\ http.stage = "received"
  /\ http.endpoint = "/diagram"
  /\ \E credentials \in BOOLEAN, o \in LoopOutcomes :
       Handled(handle_diagram(http.data, credentials, o),
               RunsLoop("/diagram", http.data, credentials), o, NoExtraction)

RoiHandled(o, roi_data) ==
  Handled(handle_roi(http.data, o, roi_data), RunsLoop("/roi", http.data, TRUE), o, roi_data)

HandleRoi ==
  /\ http.stage = "received"
  /\ http.endpoint = "/roi"
  /\ \E o \in LoopOutcomes :
       RoiHandled(o, extract_structured_data_from_response(o.result.final_response))

NextWorkflow ==
  \/ HandleDiagram
  \/ HandleRoi

SpecWorkflow == InitWorkflow /\ [][NextWorkflow]_vars

(***************************************************************************)
(* New tabs.  The browser may open a page beside the agent's own while it  *)
(* is running (a link with a target, window.open).  execute_browser_task   *)
(* registers handle_new_page for the context's "page" event (main.py       *)
(* 197-203); run_local_agent registers nothing, so there the page stays.   *)
(***************************************************************************)
TabUrls == { "https://example.com/popup" }

\* The browser opens a page; its "page" event is pending.  A page that opens
\* is one of the ways an iteration leaves the plain script.
NewTabOpens ==
  /\ closed = 0
  /\ pc # "done"
  /\ Len(tabs) < MaxTabs
  /\ Allowed(TRUE)
  /\ varied' = VariedAfter(TRUE)
  /\ \E u \in TabUrls : tabs' = Append(tabs, u)
  /\ UNCHANGED << http, client, entry, pc, turn, attempt, delays, candidate, partIx,
                  function_responses, contents, result, url, events, turnLog, exc,
                  closed, requests >>

handle_new_page_keeps_tab ==
  /\ loop = "execute_browser_task"
  /\ closed = 0
  /\ tabs # << >>
  /\ LET new_url == Head(tabs)
     IN  /\ events' = << Ev("page.goto", 0, 0, new_url) >>
         /\ url' = new_url
  /\ UNCHANGED << http, tabs, client, entry, pc, turn, attempt, delays, candidate, partIx,
                  function_responses, contents, result, turnLog, exc, closed,
                  requests, varied >>

\* new_url = new_page.url; new_page.close(); page.goto(new_url)
handle_new_page ==
  /\ loop = "execute_browser_task"
  /\ closed = 0
  /\ tabs # << >>
  /\ LET new_url == Head(tabs)
     IN  /\ events' = << Ev("new_page.close", 0, 0, new_url),
                         Ev("page.goto", 0, 0, new_url) >>
         /\ url' = new_url
         /\ tabs' = Tail(tabs)
  /\ UNCHANGED << http, client, entry, pc, turn, attempt, delays, candidate, partIx,
                  function_responses, contents, result, turnLog, exc, closed,
                  requests, varied >>

NextTabs ==
  \/ Next
  \/ NewTabOpens
  \/ handle_new_page

SpecTabs == Init /\ [][NextTabs]_vars

(***************************************************************************)
(* get_client called by several request handlers of one process.  The      *)
(* function takes no lock, so the statements of concurrent calls           *)
(* interleave: each step below is one statement of one call.               *)
(***************************************************************************)
Rest ==
  << http, tabs, entry, pc, turn, attempt, delays, candidate, partIx, function_responses,
     contents, result, url, events, turnLog, exc, closed, requests, varied >>

\* A handler reaches `client=get_client()` (main.py 253).
GetClientCalled(h) ==
  /\ client.at[h] = "idle"
  /\ Len(client.got[h]) < MaxCalls
  /\ client' = [client EXCEPT !.at[h] = "test"]
  /\ UNCHANGED Rest

\* if _client is None:                                        (main.py 77)
GetClientTests(h) ==
  /\ client.at[h] = "test"
  /\ client' = [client EXCEPT
                  !.at[h] = IF client.instance = 0 THEN "construct" ELSE "return"]
  /\ UNCHANGED Rest

\* genai.Client(api_key=api_key), after the key was read from the
\* environment or from Secret Manager: a new object.      (main.py 79-90)
GetClientConstructs(h) ==
  /\ client.at[h] = "construct"
  /\ client' = [client EXCEPT !.constructed = @ + 1,
                              !.new[h] = client.constructed + 1,
                              !.at[h] = "assign"]
  /\ UNCHANGED Rest

\* _client = <the new object>                             (main.py 81, 90)
GetClientAssigns(h) ==
  /\ client.at[h] = "assign"
  /\ client' = [client EXCEPT !.instance = client.new[h], !.new[h] = 0,
                              !.at[h] = "return"]
  /\ UNCHANGED Rest

\* return _client                                             (main.py 91)
GetClientReturns(h) ==
  /\ client.at[h] = "return"
  /\ client' = [client EXCEPT !.got[h] = Append(@, client.instance),
                              !.at[h] = "idle"]
  /\ UNCHANGED Rest

get_client(h) ==
  \/ GetClientCalled(h)
  \/ GetClientTests(h)
  \/ GetClientConstructs(h)
  \/ GetClientAssigns(h)
  \/ GetClientReturns(h)

InitClient ==
  /\ InitWorkflow
  /\ http.endpoint = "/diagram"
  /\ http.data = NoData

NextClient == \E h \in Handlers : get_client(h)

SpecClient == InitClient /\ [][NextClient]_vars

(***************************************************************************)
(* Vocabulary of the properties.                                           *)
(***************************************************************************)
Main == loop = "execute_browser_task"

AfterLoop == pc \in {"final", "finally", "done"}

Last(q) == q[Len(q)]

\* The texts of a part list, joined by single spaces, empty texts left out.
RECURSIVE SpaceJoined(_)
SpaceJoined(parts) ==
  IF parts = << >> THEN ""
  ELSE LET rest == SpaceJoined(Tail(parts)) IN
       IF Head(parts).text = "" THEN rest
       ELSE IF rest = "" THEN Head(parts).text
       ELSE Head(parts).text \o " " \o rest

\* The names of the calls, and of the function responses, of a part list.
RECURSIVE CallNames(_)
CallNames(parts) ==
  IF parts = << >> THEN << >>
  ELSE (IF Head(parts).function_call.set
        THEN << Head(parts).function_call.name >> ELSE << >>)
       \o CallNames(Tail(parts))

ResponseNames(parts) == [k \in 1..Len(parts) |-> parts[k].function_response.name]

\* The candidate is a responder turn without a request that is not flagged
\* malformed.
SilentAnswer(c) ==
  c # NoCandidate /\ c.finish_reason # "MALFORMED_FUNCTION_CALL" /\ ~HasCalls(c.parts)

\* The step is one in which a response of the model arrives.
ResponseArrives == pc = "request" /\ attempt' = 0

\* The calls of the last step that dispatch input or navigate.
InputEvents(evs) == { k \in 1..Len(evs) : evs[k].op \in InputOps }

(***************************************************************************)
(* C1.  In execute_browser_task, a responder turn without an action        *)
(* request that is not a malformed retry ends the task: status is          *)
(* completed, final_response is the turn's texts joined, the loop has      *)
(* stopped; and status completed comes from nothing else.  Once completed, *)
(* no inference request is made, no action is executed or recorded and      *)
(* the conversation no longer grows.                                       *)
(***************************************************************************)
C1_SilentTurnCompletes ==
  /\ [](Main =>
          /\ SilentAnswer(candidate) =>
               /\ result.status = "completed"
               /\ result.final_response = SpaceJoined(candidate.parts)
               /\ AfterLoop
          /\ result.status = "completed" => SilentAnswer(candidate))
  /\ [][(Main /\ result.status = "completed") =>
          /\ requests' = requests
          /\ result'.actions_taken = result.actions_taken
          /\ result'.status = "completed"
          /\ result'.final_response = result.final_response
          /\ contents' = contents
          /\ InputEvents(events') = {}]_vars

\* Some clicks, then an answer in two text parts: the task is completed and
\* the answer is the two texts joined.
C1_Witness ==
  /\ Main
  /\ pc = "done"
  /\ result.status = "completed"
  /\ result.final_response = "Done ok"
  /\ Len(result.actions_taken) >= 2

(***************************************************************************)
(* C2.  As amended: the loop makes at most one inference request per turn  *)
(* and ends after at most 15 turns in execute_browser_task, whoever calls  *)
(* it -- the workflow handlers and the ad-hoc handler alike -- and after   *)
(* at most 10 turns in run_local_agent.  Every counter of the loops is     *)
(* bounded, so every run ends.                                             *)
(***************************************************************************)
C2_TurnCap ==
  /\ loop = "execute_browser_task" => requests <= 15 /\ turn <= 15
  /\ loop = "run_local_agent" => requests <= 10 /\ turn <= 10
  /\ requests <= turn + 1
  /\ pc \in {"request", "exec"} => turn < MaxTurns(loop)
  /\ pc = "exec" => requests = turn + 1
  /\ attempt < max_retries
  /\ pc = "exec" => partIx <= Len(candidate.parts) + 1
  /\ closed <= 1

\* The cap is reached: 15 requests were made and the run has ended.
C2_Witness ==
  /\ loop = "execute_browser_task"
  /\ pc = "done"
  /\ requests = 15
  /\ turn = 15

\* The caps as the claim has them: 15 for the workflow tasks, 10 for the
\* simple ad-hoc tasks.
ClaimedCap(h) == IF h \in {"handle_diagram", "handle_roi"} THEN 15 ELSE 10

\* C2 as stated: whatever the caller, the loop it runs makes no more
\* requests than the claimed cap of the caller's kind of task.
C2_Original == \A h \in Callers : LoopOf(h) = loop => requests <= ClaimedCap(h)

(***************************************************************************)
(* C3.  In execute_browser_task, while every response of the model is a    *)
(* responder turn with at least one action request, the status is never    *)
(* completed; when such a run leaves the loop without a failure, it does   *)
(* so after the 15 turns of the cap with status in_progress; and           *)
(* actions_taken has one record per action executed.                       *)
(***************************************************************************)
ModelTurns == { i \in 1..Len(contents) : contents[i].role = "model" }

\* Every responder turn so far holds an action request, and no response came
\* without a responder turn.
AllActed ==
  /\ \A i \in ModelTurns : HasCalls(contents[i].parts)
  /\ candidate # NoCandidate => candidate.has_content /\ HasCalls(candidate.parts)

NoFailure == result.status # "error" /\ exc = ""

RECURSIVE ResultsIn(_)
ResultsIn(cs) ==
  IF cs = << >> THEN 0
  ELSE (IF Head(cs).role = "user"
        THEN Cardinality({ k \in 1..Len(Head(cs).parts) :
                             Head(cs).parts[k].function_response.set })
        ELSE 0) + ResultsIn(Tail(cs))

\* The actions executed so far: those whose results are in the conversation
\* and those of the turn in progress.
Executed == ResultsIn(contents) + (IF pc = "exec" THEN Len(function_responses) ELSE 0)

C3_AlwaysActingNeverCompletes ==
  (Main /\ AllActed /\ NoFailure) =>
     /\ result.status = "in_progress"
     /\ AfterLoop => turn = TurnsExecuteBrowserTask /\ requests = TurnsExecuteBrowserTask
     /\ Len(result.actions_taken) = Executed

\* Fifteen acting turns, one of them with three requests: the run ends
\* in_progress with seventeen actions recorded.
C3_Witness ==
  /\ Main /\ AllActed /\ NoFailure
  /\ pc = "done"
  /\ turn = 15
  /\ result.status = "in_progress"
  /\ Len(result.actions_taken) = 17

(***************************************************************************)
(* C4.  In execute_browser_task, when the last attempt of the inference    *)
(* call fails, the status becomes error, final_response carries the        *)
(* message of the failure, no turn is appended, and the loop is left; the  *)
(* status becomes error with an API message in no other way.  Under status *)
(* error no inference request is made, no action is executed or recorded   *)
(* and the conversation does not grow.                                     *)
(***************************************************************************)
LastAttemptFails ==
  /\ Main /\ pc = "request"
  /\ turnLog' # << >> /\ Last(turnLog') = "ERROR API call failed"

BecomesError == result.status # "error" /\ result'.status = "error"

C4_InferenceFailureStops ==
  /\ [][LastAttemptFails =>
          /\ attempt = max_retries - 1
          /\ result'.status = "error"
          /\ \E msg \in ApiErrors : result'.final_response = "API error: " \o msg
          /\ result'.actions_taken = result.actions_taken
          /\ contents' = contents
          /\ pc' = "final"]_vars
  /\ [][(BecomesError /\ result'.final_response # "Empty response from model")
          => LastAttemptFails]_vars
  /\ [](result.status = "error" => AfterLoop)
  /\ [][(result.status = "error" /\ StartsWith(result.final_response, "API error"))
          => /\ requests' = requests
             /\ contents' = contents
             /\ result'.actions_taken = result.actions_taken
             /\ result'.status = "error"
             /\ result'.final_response = result.final_response
             /\ InputEvents(events') = {}]_vars

\* After some turns the inference call fails five times: the run ends with
\* the message of the failure.
C4_Witness ==
  /\ Main
  /\ pc = "done"
  /\ result.status = "error"
  /\ result.final_response = "API error: 503 UNAVAILABLE"
  /\ attempt = max_retries - 1
  /\ delays = << 1, 2, 4, 8 >>
  /\ Len(contents) > 1

(***************************************************************************)
(* C5.  In execute_browser_task, a response without candidates sets the    *)
(* status to error with final_response "Empty response from model" and     *)
(* leaves the loop; no turn is appended and no action recorded, and on the *)
(* first request actions_taken is empty.  Afterwards no inference request  *)
(* is made and no action is executed.                                      *)
(***************************************************************************)
NoCandidatesArrives ==
  /\ Main /\ ResponseArrives
  /\ turnLog' # << >> /\ Last(turnLog') = "WARNING Response has no candidates"

C5_NoCandidatesStops ==
  /\ [][NoCandidatesArrives =>
          /\ result'.status = "error"
          /\ result'.final_response = "Empty response from model"
          /\ result'.actions_taken = result.actions_taken
          /\ contents' = contents
          /\ pc' = "final"
          /\ requests' = 1 => result'.actions_taken = << >> /\ Len(contents') = 1]_vars
  /\ [][(BecomesError /\ result'.final_response = "Empty response from model")
          => NoCandidatesArrives]_vars
  /\ [][(result.status = "error" /\ result.final_response = "Empty response from model")
          => /\ requests' = requests
             /\ contents' = contents
             /\ result'.actions_taken = result.actions_taken
             /\ result'.status = "error"
             /\ AfterLoop'
             /\ InputEvents(events') = {}]_vars

\* The first response has no candidates: error, nothing recorded.
C5_Witness ==
  /\ Main
  /\ pc = "done"
  /\ requests = 1
  /\ result.status = "error"
  /\ result.final_response = "Empty response from model"
  /\ result.actions_taken = << >>
  /\ Len(contents) = 1

(***************************************************************************)
(* C6.  As stated: in execute_browser_task, a response whose candidate is  *)
(* flagged MALFORMED_FUNCTION_CALL and holds no action request raises      *)
(* nothing, leaves the status in_progress, records no action, appends no   *)
(* initiator turn, and uses up exactly one turn of the cap before the loop *)
(* is entered again.                                                       *)
(***************************************************************************)
MalformedArrives ==
  /\ Main /\ ResponseArrives
  /\ ~NoCandidatesArrives
  /\ candidate'.finish_reason = "MALFORMED_FUNCTION_CALL"
  /\ ~HasCalls(candidate'.parts)

C6_Original ==
  [][MalformedArrives =>
       /\ exc' = ""
       /\ result' = result
       /\ result.status = "in_progress"
       /\ contents' \in { contents, Append(contents, Content("model", candidate'.parts)) }
       /\ turn' = turn + 1
       /\ pc' = AfterIteration(turn, loop)]_vars

(***************************************************************************)
(* C7.  Every initiator turn of action results follows a responder turn    *)
(* and holds one result per action request of that turn, with the same     *)
(* names in the same order; and while a responder turn is executed, the    *)
(* results collected so far are those of the requests before the current   *)
(* part, in order -- whether or not an action raised.                      *)
(***************************************************************************)
C7_ResultsInRequestOrder ==
  /\ \A i \in 2..Len(contents) :
       contents[i].role = "user" =>
         /\ contents[i - 1].role = "model"
         /\ ResponseNames(contents[i].parts) = CallNames(contents[i - 1].parts)
  /\ (pc = "exec" /\ exc = "") =>
       /\ partIx \in 1..(Len(candidate.parts) + 1)
       /\ [k \in 1..Len(function_responses) |-> function_responses[k].name]
            = CallNames(SubSeq(candidate.parts, 1, partIx - 1))

\* A turn of three requests, the first of which raised: its three results
\* are in the conversation in the order of the requests.
C7_Witness ==
  /\ Main
  /\ Len(contents) >= 3
  /\ Last(contents).role = "user"
  /\ ResponseNames(Last(contents).parts) = << "navigate", "zoom_page", "type_text_at" >>
  /\ \E k \in 1..Len(turnLog) : StartsWith(turnLog[k], "ERROR Error executing navigate")

(***************************************************************************)
(* C8.  An exception caught by the except clause of an action leaves the   *)
(* status as it is and the action recorded once; unless the screenshot     *)
(* that follows raises, the loop moves to the next part with the result of *)
(* the failed action appended, so that every request before the current    *)
(* part was executed exactly once, and the turn ends in_progress with the  *)
(* loop going on to its next request while the cap allows.                 *)
(***************************************************************************)
CaughtLine(line) ==
  StartsWith(line, "ERROR Error executing") \/ StartsWith(line, "PRINT Error: ")

ExceptionCaught ==
  /\ pc = "exec"
  /\ Len(turnLog') = Len(turnLog) + 1
  /\ CaughtLine(Last(turnLog'))

CaughtInTurn == \E k \in 1..Len(turnLog) : CaughtLine(turnLog[k])

C8_ActionExceptionAbsorbed ==
  /\ [][ExceptionCaught =>
          /\ result'.status = result.status
          /\ candidate' = candidate
          /\ turn' = turn
          /\ Main => result'.actions_taken =
                       Append(result.actions_taken,
                              ActionRecord(candidate.parts[partIx].function_call.name,
                                           candidate.parts[partIx].function_call.args))
          /\ exc' = "" =>
               /\ pc' = "exec"
               /\ partIx' = partIx + 1
               /\ Len(function_responses') = Len(function_responses) + 1
               /\ Last(function_responses').name =
                    candidate.parts[partIx].function_call.name]_vars
  /\ []((CaughtInTurn /\ exc = "") =>
          /\ Main => result.status = "in_progress"
          /\ pc \in {"exec", "request"} \/ (AfterLoop /\ turn = MaxTurns(loop))
          /\ pc = "exec" =>
               Len(function_responses) = Len(CallNames(SubSeq(candidate.parts, 1, partIx - 1))))

\* The first of two actions raised, the second was executed, and the loop is
\* at its next inference request.
C8_Witness ==
  /\ Main
  /\ pc = "request"
  /\ result.status = "in_progress"
  /\ \E k \in 1..Len(turnLog) : StartsWith(turnLog[k], "ERROR Error executing navigate")
  /\ Len(Last(contents).parts) = 2
  /\ Last(contents).parts[2].function_response.name = "type_text_at"
  /\ Len(result.actions_taken) = 2

(***************************************************************************)
(* C9.  As stated: whenever an action has been executed and its screenshot *)
(* taken, the two calls before the screenshot are the wait for the load    *)
(* state and the pause, in that order -- also when the action raised.      *)
(***************************************************************************)
C9_Original ==
  (pc = "exec" /\ events # << >> /\ Last(events) = Screenshot) =>
     /\ Len(events) >= 3
     /\ events[Len(events) - 2] = WaitForLoadState
     /\ events[Len(events) - 1].op = "time.sleep"

(***************************************************************************)
(* C10.  In execute_browser_task, an action request whose name the         *)
(* dispatch does not know performs no input on the page and leaves its URL *)
(* alone, is recorded in actions_taken with its arguments, and leaves the  *)
(* status unchanged; unless the screenshot raises, a result of that name   *)
(* with a screenshot is collected and the loop goes on with the next part. *)
(***************************************************************************)
UnknownDispatched ==
  /\ Main /\ pc = "exec"
  /\ partIx <= Len(candidate.parts)
  /\ candidate.parts[partIx].function_call.set
  /\ candidate.parts[partIx].function_call.name \notin PREDEFINED_COMPUTER_USE_FUNCTIONS

C10_UnknownActionIsNoOp ==
  [][UnknownDispatched =>
       LET fc == candidate.parts[partIx].function_call IN
       /\ InputEvents(events') = {}
       /\ url' = url
       /\ result'.actions_taken = Append(result.actions_taken, ActionRecord(fc.name, fc.args))
       /\ result'.status = result.status
       /\ result'.status = "in_progress"
       /\ exc' = "" =>
            /\ pc' = "exec"
            /\ partIx' = partIx + 1
            /\ Len(function_responses') = Len(function_responses) + 1
            /\ Last(function_responses').name = fc.name
            /\ Last(function_responses').parts # << >>
            /\ Last(events') = Screenshot]_vars

\* zoom_page was dispatched: only the settle-wait, the pause and the
\* screenshot ran, and the action is on record with its result.
C10_Witness ==
  /\ Main
  /\ pc = "exec"
  /\ events = << WaitForLoadState, Sleep(500), Screenshot >>
  /\ function_responses # << >>
  /\ Last(function_responses).name = "zoom_page"
  /\ Last(result.actions_taken).action = "zoom_page"
  /\ "WARNING Unknown action: zoom_page" \in { turnLog[k] : k \in 1..Len(turnLog) }

(***************************************************************************)
(* C11.  As stated: when execute_browser_task prunes a conversation in     *)
(* which N initiator turns carry an action-result image and N exceeds the  *)
(* budget of 3, afterwards exactly the 3 most recent of those turns carry  *)
(* an image, they are unchanged, and every action result of the            *)
(* conversation has kept its name and URL.                                 *)
(***************************************************************************)
\* The initiator turns of a conversation with at least one action-result image.
ImageTurns(cs) ==
  { i \in 1..Len(cs) :
      /\ cs[i].role = "user"
      /\ \E k \in 1..Len(cs[i].parts) :
           /\ cs[i].parts[k].function_response.set
           /\ cs[i].parts[k].function_response.parts # << >> }

\* The b largest members of a set of positions.
MostRecent(T, b) == { i \in T : Cardinality({ j \in T : j > i }) < b }

SameNamesAndUrls(before, after) ==
  /\ Len(after) = Len(before)
  /\ \A i \in 1..Len(before) :
       /\ after[i].role = before[i].role
       /\ Len(after[i].parts) = Len(before[i].parts)
       /\ \A k \in 1..Len(before[i].parts) :
            /\ after[i].parts[k].function_response.name
                 = before[i].parts[k].function_response.name
            /\ after[i].parts[k].function_response.url
                 = before[i].parts[k].function_response.url

\* The step in which the results of a turn are appended and the conversation
\* is pruned, and the conversation just before the pruning.
PruningStep == Main /\ pc = "exec" /\ partIx > Len(candidate.parts)

BeforePruning ==
  Append(contents,
         Content("user", [k \in 1..Len(function_responses) |->
                            FrPart(function_responses[k])]))

C11_Original ==
  [][PruningStep =>
       LET T == ImageTurns(BeforePruning) IN
       /\ SameNamesAndUrls(BeforePruning, contents')
       /\ Cardinality(T) > MAX_RECENT_TURNS_WITH_SCREENSHOTS =>
            /\ ImageTurns(contents') = MostRecent(T, MAX_RECENT_TURNS_WITH_SCREENSHOTS)
            /\ \A i \in MostRecent(T, MAX_RECENT_TURNS_WITH_SCREENSHOTS) :
                 contents'[i] = BeforePruning[i]]_vars

(***************************************************************************)
(* C12.  As stated: whenever execute_browser_task is about to send the     *)
(* conversation to the model, at most 3 of its initiator turns carry an    *)
(* action-result image.                                                    *)
(***************************************************************************)
C12_Original ==
  (Main /\ pc = "request") =>
     Cardinality(ImageTurns(contents)) <= MAX_RECENT_TURNS_WITH_SCREENSHOTS

(***************************************************************************)
(* C13.  A key_combination request for the chord k1+...+kn dispatches, as  *)
(* its keyboard events, key-down of k1..k(n-1) from left to right, a press *)
(* of kn, and key-up of k(n-1)..k1 in reverse order, the tokens taken      *)
(* through the key map; a run that raises in between has dispatched a      *)
(* prefix of that sequence.  Control+Shift+A gives down Control, down      *)
(* Shift, press A, up Shift, up Control.  In both loops.                   *)
(***************************************************************************)
\* The chord of a token list: the first token is held around the chord of
\* the rest.
RECURSIVE Chord(_)
Chord(ks) ==
  IF Len(ks) = 1 THEN << Ev("keyboard.press", 0, 0, ks[1]) >>
  ELSE << Ev("keyboard.down", 0, 0, ks[1]) >> \o Chord(Tail(ks))
       \o << Ev("keyboard.up", 0, 0, ks[1]) >>

ChordTokens(ks) ==
  [i \in 1..Len(Split(ks, "+")) |-> NormalizeKey(loop, Split(ks, "+")[i])]

IsKeyboardEvent(e) == e.op \in {"keyboard.down", "keyboard.press", "keyboard.up"}

KeyboardEvents(evs) == SelectSeq(evs, IsKeyboardEvent)

IsPrefix(a, b) == Len(a) <= Len(b) /\ SubSeq(b, 1, Len(a)) = a

\* The call the loop is about to execute.
CurrentCall == candidate.parts[partIx].function_call

Dispatching(name) ==
  /\ pc = "exec"
  /\ partIx <= Len(candidate.parts)
  /\ CurrentCall.set
  /\ CurrentCall.name = name

\* The step logs no caught exception and none escapes.
NothingRaised == exc' = "" /\ ~(\E k \in 1..Len(turnLog') : CaughtLine(turnLog'[k]))

C13_ChordEventOrder ==
  [][(Dispatching("key_combination") /\ "keys" \in CurrentCall.args.has) =>
       LET ks == CurrentCall.args.keys
           kb == KeyboardEvents(events')
       IN /\ IsPrefix(kb, Chord(ChordTokens(ks)))
          /\ NothingRaised => kb = Chord(ChordTokens(ks))
          /\ (NothingRaised /\ ks = "Control+Shift+A") =>
               kb = << Ev("keyboard.down", 0, 0, "Control"),
                       Ev("keyboard.down", 0, 0, "Shift"),
                       Ev("keyboard.press", 0, 0, "A"),
                       Ev("keyboard.up", 0, 0, "Shift"),
                       Ev("keyboard.up", 0, 0, "Control") >>]_vars

\* Control+Shift+A was dispatched in execute_browser_task: the five keyboard
\* events, then the settle-wait, the pause and the screenshot.
C13_Witness ==
  /\ Main
  /\ CallNames(candidate.parts) = << "key_combination" >>
  /\ events = << Ev("keyboard.down", 0, 0, "Control"),
                 Ev("keyboard.down", 0, 0, "Shift"),
                 Ev("keyboard.press", 0, 0, "A"),
                 Ev("keyboard.up", 0, 0, "Shift"),
                 Ev("keyboard.up", 0, 0, "Control"),
                 WaitForLoadState, Sleep(500), Screenshot >>

(***************************************************************************)
(* C14.  As stated: a click_at request with normalized coordinates (v, v), *)
(* v in 0..999, clicks at the pixel (floor(v * 1440 / 1000),               *)
(* floor(v * 900 / 1000)).                                                 *)
(***************************************************************************)
HasXY(args) == {"x", "y"} \subseteq args.has

C14_Original ==
  [][(Dispatching("click_at") /\ HasXY(CurrentCall.args) /\ events' # << >>
        /\ events'[1].op = "mouse.click") =>
       /\ events'[1].a = (CurrentCall.args.x * SCREEN_WIDTH) \div 1000
       /\ events'[1].b = (CurrentCall.args.y * SCREEN_HEIGHT) \div 1000]_vars

(***************************************************************************)
(* C15.  For click_at, hover_at, type_text_at, scroll_at and drag_and_drop *)
(* with normalized coordinates in 0..999, every click and every pointer    *)
(* move targets a pixel inside the viewport, 0 <= px < 1440 and            *)
(* 0 <= py < 900; the coordinate 0 maps to pixel 0 and 999 to a pixel      *)
(* below the extent.                                                       *)
(***************************************************************************)
PointerActions == { "click_at", "hover_at", "type_text_at", "scroll_at", "drag_and_drop" }

InRange(args) ==
  /\ HasXY(args)
  /\ args.x \in 0..NormalizedMax /\ args.y \in 0..NormalizedMax
  /\ "destination_x" \in args.has => args.destination_x \in 0..NormalizedMax
  /\ "destination_y" \in args.has => args.destination_y \in 0..NormalizedMax

PointerEvents(evs) == { k \in 1..Len(evs) : evs[k].op \in {"mouse.click", "mouse.move"} }

C15_PixelInsideViewport ==
  [][(pc = "exec" /\ partIx <= Len(candidate.parts) /\ CurrentCall.set
        /\ CurrentCall.name \in PointerActions /\ InRange(CurrentCall.args)) =>
       /\ \A k \in PointerEvents(events') :
            /\ events'[k].a \in 0..(SCREEN_WIDTH - 1)
            /\ events'[k].b \in 0..(SCREEN_HEIGHT - 1)
       /\ (PointerEvents(events') # {} /\ CurrentCall.args.x = 0) => events'[1].a = 0
       /\ (PointerEvents(events') # {} /\ CurrentCall.args.y = 0) => events'[1].b = 0
       /\ (PointerEvents(events') # {} /\ CurrentCall.args.x = NormalizedMax) =>
            events'[1].a < SCREEN_WIDTH
       /\ (PointerEvents(events') # {} /\ CurrentCall.args.y = NormalizedMax) =>
            events'[1].b < SCREEN_HEIGHT]_vars

\* click_at(999, 999) clicked at the last but one column and the last row.
C15_Witness ==
  /\ Main
  /\ events # << >>
  /\ events[1] = Ev("mouse.click", 1438, 899, "")
  /\ Last(events) = Screenshot

(***************************************************************************)
(* C16.  The conversation starts with the user turn that seeds the task;   *)
(* a user turn is always followed by a model turn, so two user turns are   *)
(* never adjacent; and a model turn is appended directly after a model     *)
(* turn only in execute_browser_task, when the earlier one was an output   *)
(* flagged malformed, without action requests, that the loop retried.      *)
(***************************************************************************)
AdjacentModelTurns(cs) ==
  { i \in 1..(Len(cs) - 1) : cs[i].role = "model" /\ cs[i + 1].role = "model" }

C16_TurnsAlternate ==
  /\ [](/\ contents # << >>
        /\ contents[1].role = "user"
        /\ \A i \in 1..Len(contents) : contents[i].role \in {"user", "model"}
        /\ \A i \in 1..(Len(contents) - 1) :
             contents[i].role = "user" => contents[i + 1].role = "model"
        /\ \A i \in AdjacentModelTurns(contents) : Main /\ ~HasCalls(contents[i].parts))
  /\ [][(Len(contents') = Len(contents) + 1 /\ Last(contents).role = "model"
           /\ Last(contents').role = "model") =>
          /\ Main
          /\ candidate.finish_reason = "MALFORMED_FUNCTION_CALL"
          /\ ~HasCalls(candidate.parts)
          /\ candidate.has_content
          /\ Last(contents) = Content("model", candidate.parts)
          /\ SubSeq(contents', 1, Len(contents)) = contents]_vars

\* A malformed output was retried and the next output acted: user, model,
\* model, user.
C16_Witness ==
  /\ Main
  /\ Len(contents) = 4
  /\ [i \in 1..4 |-> contents[i].role] = << "user", "model", "model", "user" >>
  /\ contents[2].parts = << TextPart("Sorry") >>

(***************************************************************************)
(* C17.  In execute_browser_task the status is in_progress when the loop   *)
(* is entered; it only ever changes from in_progress to completed or to    *)
(* error; and once it is not in_progress it stays as it is, the loop is    *)
(* left, no inference request is made, no input is dispatched to the page  *)
(* and actions_taken is not appended to.                                   *)
(***************************************************************************)
C17_StatusChangesOnce ==
  /\ [](Main =>
          /\ result.status \in {"in_progress", "completed", "error"}
          /\ requests = 0 => result.status = "in_progress"
          /\ result.status # "in_progress" => AfterLoop)
  /\ [][(Main /\ result'.status # result.status) =>
          /\ result.status = "in_progress"
          /\ result'.status \in {"completed", "error"}
          /\ result'.actions_taken = result.actions_taken]_vars
  /\ [][(Main /\ result.status # "in_progress") =>
          /\ result'.status = result.status
          /\ requests' = requests
          /\ turn' = turn
          /\ result'.actions_taken = result.actions_taken
          /\ InputEvents(events') = {}
          /\ AfterLoop']_vars

\* After three actions a response without candidates set the status to
\* error; the run ended with the three actions on record.
C17_Witness ==
  /\ Main
  /\ pc = "done"
  /\ result.status = "error"
  /\ Len(result.actions_taken) = 3
  /\ requests = 4

(***************************************************************************)
(* C18.  In execute_browser_task, however the loop is left without an      *)
(* exception -- completed, error after the inference call failed, error    *)
(* after a response without candidates, or the turn cap -- the next step   *)
(* takes one screenshot and stores it and the page URL in the result, and  *)
(* nothing else writes them: a result that is returned holds the final     *)
(* screenshot and the final URL.  (If that screenshot raises, no result is *)
(* returned.)                                                              *)
(***************************************************************************)
C18_FinalStateCaptured ==
  /\ [](Main =>
          /\ (pc = "done" /\ exc = "") =>
               /\ result.final_screenshot_b64 # ""
               /\ result.final_url = url
          /\ pc \in {"request", "exec", "final"} =>
               result.final_screenshot_b64 = "" /\ result.final_url = "")
  /\ [][(Main /\ pc \in {"request", "exec"} /\ pc' \notin {"request", "exec"}
           /\ exc' = "") => pc' = "final"]_vars
  /\ [][(Main /\ pc = "final") =>
          /\ pc' = "finally"
          /\ exc' = "" =>
               /\ events' = << Screenshot >>
               /\ result' = [result EXCEPT !.final_screenshot_b64 = "b64(image/png)",
                                           !.final_url = url]
          /\ exc' # "" => result' = result]_vars
  /\ [][(Main /\ pc # "final") =>
          /\ result'.final_screenshot_b64 = result.final_screenshot_b64
          /\ result'.final_url = result.final_url]_vars

\* The turn cap was exhausted after a navigation: the result is in_progress
\* and holds the final screenshot and the URL navigated to.
C18_Witness ==
  /\ Main
  /\ pc = "done"
  /\ exc = ""
  /\ turn = TurnsExecuteBrowserTask
  /\ result.status = "in_progress"
  /\ result.final_screenshot_b64 # ""
  /\ result.final_url = "https://wikipedia.org"

(***************************************************************************)
(* C19.  One call of get_model_response makes at most 5 attempts.  After   *)
(* its k-th failure, k = 1..4, it has waited 1, 2, 4, 8 seconds, one wait  *)
(* per failure, before the next attempt; a response that arrives is        *)
(* returned at once, after as many waits as failures; the 5th failure      *)
(* adds no wait and is raised, which ends the loop with status error.      *)
(***************************************************************************)
BackoffSchedule == << 1, 2, 4, 8 >>

AttemptFailsAndRetries == Main /\ pc = "request" /\ attempt' = attempt + 1

C19_RetryWithBackoff ==
  /\ [](Main =>
          /\ attempt \in 0..(max_retries - 1)
          /\ Len(delays) = attempt
          /\ delays = SubSeq(BackoffSchedule, 1, attempt))
  /\ [][AttemptFailsAndRetries =>
          /\ attempt < max_retries - 1
          /\ delays' = Append(delays, base_delay_s * (2 ^ attempt))
          /\ pc' = "request"
          /\ result' = result
          /\ contents' = contents
          /\ Last(turnLog') = "WARNING API call failed"]_vars
  /\ [][LastAttemptFails =>
          /\ attempt = max_retries - 1
          /\ attempt' = attempt
          /\ delays' = delays
          /\ delays = BackoffSchedule
          /\ result'.status = "error"]_vars
  /\ [][(Main /\ ResponseArrives) =>
          /\ Len(delays) = attempt
          /\ delays' = << >>
          /\ requests' = (IF attempt = 0 THEN requests + 1 ELSE requests)]_vars

\* Three attempts of one call have failed; the call has waited 1, 2 and 4
\* seconds and the task is still in progress.
C19_Witness ==
  /\ Main
  /\ pc = "request"
  /\ attempt = 3
  /\ delays = << 1, 2, 4 >>
  /\ result.status = "in_progress"
  /\ turnLog = << "WARNING API call failed", "WARNING API call failed",
                  "WARNING API call failed" >>

(***************************************************************************)
(* C20.  As stated: no step of the loop of execute_browser_task lets an    *)
(* exception escape, and the loop is left only with status error (the      *)
(* inference call exhausted, or no candidates), on the completion of the   *)
(* task, or at the turn cap.                                               *)
(***************************************************************************)
InLoop == pc \in {"request", "exec"}

C20_Original ==
  [][(Main /\ InLoop) =>
       /\ exc' = ""
       /\ ~InLoop' =>
            \/ result'.status \in {"error", "completed"}
            \/ turn' = TurnsExecuteBrowserTask]_vars

(***************************************************************************)
(* C21.  As stated: in execute_browser_task, the result of an action       *)
(* carries the safety acknowledgement exactly when the arguments of the    *)
(* request carry a safety_decision field, and the action is executed       *)
(* either way.                                                             *)
(***************************************************************************)
C21_Original ==
  [][(Main /\ pc = "exec" /\ partIx <= Len(candidate.parts) /\ CurrentCall.set
        /\ NothingRaised) =>
       /\ Last(function_responses').safety_acknowledgement
            <=> ("safety_decision" \in CurrentCall.args.has)
       /\ events' = MainBody(CurrentCall.name, CurrentCall.args)
                      \o << WaitForLoadState, Sleep(500), Screenshot >>]_vars

(***************************************************************************)
(* C22.  In execute_browser_task, actions_taken only grows, by one record  *)
(* at its end per step, and at every point it is the list of the action    *)
(* requests dispatched so far -- name and arguments, in dispatch order --  *)
(* whether the action succeeded, raised, or had an unknown name.           *)
(***************************************************************************)
RECURSIVE RecordsOf(_)
RecordsOf(parts) ==
  IF parts = << >> THEN << >>
  ELSE (IF Head(parts).function_call.set
        THEN << [action |-> Head(parts).function_call.name,
                 args |-> Head(parts).function_call.args] >>
        ELSE << >>) \o RecordsOf(Tail(parts))

\* The parts of the last responder turn the loop has gone through: those
\* before the current part, and the current one if its execution was left
\* by an exception.
PartsGoneThrough(parts) ==
  LET upto == IF exc # "" THEN partIx ELSE partIx - 1
  IN  SubSeq(parts, 1, IF upto > Len(parts) THEN Len(parts) ELSE upto)

RECURSIVE DispatchedIn(_, _)
DispatchedIn(cs, i) ==
  IF i > Len(cs) THEN << >>
  ELSE IF cs[i].role # "model" THEN DispatchedIn(cs, i + 1)
  ELSE IF \E j \in (i + 1)..Len(cs) : cs[j].role = "model"
       THEN RecordsOf(cs[i].parts) \o DispatchedIn(cs, i + 1)
       ELSE RecordsOf(PartsGoneThrough(cs[i].parts))

C22_ActionsTakenAppendOnly ==
  /\ [](Main => result.actions_taken = DispatchedIn(contents, 1))
  /\ [][Main =>
          /\ IsPrefix(result.actions_taken, result'.actions_taken)
          /\ Len(result'.actions_taken) <= Len(result.actions_taken) + 1
          /\ Len(result'.actions_taken) = Len(result.actions_taken) + 1
               <=> (pc = "exec" /\ partIx <= Len(candidate.parts) /\ CurrentCall.set)]_vars

\* A click, then a turn of three requests of which the first raised and the
\* second has an unknown name: four records, in dispatch order.
C22_Witness ==
  /\ Main
  /\ pc = "request"
  /\ CaughtInTurn
  /\ [k \in 1..Len(result.actions_taken) |-> result.actions_taken[k].action]
       = << "click_at", "navigate", "zoom_page", "type_text_at" >>
  /\ result.actions_taken[2].args.url = "wikipedia.org"

(***************************************************************************)
(* C23.  When the loop of execute_browser_task ends with status error, the *)
(* Result it returns holds the page's URL at the end, the action log as it *)
(* stood before the failure (the transition to error and the steps after   *)
(* it leave the log alone), the final screenshot, and in final_response    *)
(* the text that tells what failed.                                        *)
(***************************************************************************)
ErrorTexts ==
  { "API error: " \o msg : msg \in ApiErrors } \cup { "Empty response from model" }

Responded == http.stage = "responded"

\* The handler called execute_browser_task and got a Result back.
LoopReturned == Responded /\ http.ran_loop /\ http.loop_raised = ""

\* handle_roi called the extraction on the final response.
Extracted == LoopReturned /\ http.endpoint = "/roi" /\ result.status = "completed"

\* The text holds a JSON object that gives key an empty string as its value.
EmptyIn(decoded, key) ==
  /\ decoded.ok
  /\ InData(decoded.members, key)
  /\ DataGet(decoded.members, key).kind = "string"
  /\ Strip(DataGet(decoded.members, key).text) = ""

EmptyInText(text, key) ==
  json_match(text) # "" /\ EmptyIn(json_loads(json_match(text)), key)

(***************************************************************************)
(* C24.  As stated: the extraction either returns the complete triple      *)
(* roi_percentage, payback_months, annual_savings taken from the text, or  *)
(* fails with an error that says why; it returns no partial result, and no *)
(* value that is empty in the text is returned as a default.               *)
(***************************************************************************)
C24_Original ==
  Extracted =>
    \/ http.roi_data.raised # "" /\ http.roi_data.message # ""
    \/ /\ http.roi_data.raised = ""
       /\ http.roi_data.has = RoiKeys
       /\ \A key \in RoiKeys : ~EmptyInText(result.final_response, key)

(***************************************************************************)
(* C25.  /diagram and /roi answer a loop result whose status is            *)
(* in_progress or error with an error response (HTTP 500, status error,    *)
(* error_type execution_error) that carries the Result's actions_taken;    *)
(* an answer with status completed is given to a completed loop only.      *)
(***************************************************************************)
C25_UnfinishedLoopIsAnError ==
  /\ (LoopReturned /\ result.status \in { "in_progress", "error" }) =>
       /\ http.code = 500
       /\ http.response.status = "error"
       /\ http.response.error_type = "execution_error"
       /\ "actions_taken" \in http.response.has
       /\ http.response.actions_taken = result.actions_taken
  /\ (Responded /\ http.response.status = "completed") =>
       /\ LoopReturned
       /\ result.status = "completed"
       /\ http.code = 200

\* /diagram after a loop that used up its turns with one action on record.
C25_Witness ==
  /\ LoopReturned
  /\ http.endpoint = "/diagram"
  /\ result.status = "in_progress"
  /\ result.actions_taken # << >>
  /\ http.response.status = "error"
  /\ http.response.actions_taken = result.actions_taken

(***************************************************************************)
(* C26.  As amended: when the loop completed but the extraction raises its *)
(* ValueError, /roi answers with an execution error (HTTP 500, error_type  *)
(* execution_error), not a validation error; the answer carries the first  *)
(* 1000 characters of the final response text, the extraction's message,   *)
(* and actions_taken.                                                      *)
(***************************************************************************)
ExtractionRaised == Extracted /\ http.roi_data.raised # ""

C26_ExtractionFailureAnswer ==
  (Extracted /\ http.roi_data.raised = "ValueError") =>
    /\ http.code = 500
    /\ http.response.status = "error"
    /\ http.response.error_type = "execution_error"
    /\ http.response.error
         = "Could not extract ROI values from response: " \o http.roi_data.message
    /\ "final_response" \in http.response.has
    /\ http.response.final_response = Truncate(result.final_response, 1000)
    /\ Len(result.final_response) <= 1000
         => http.response.final_response = result.final_response
    /\ http.response.actions_taken = result.actions_taken

\* A final response of 1080 characters without ROI values: the answer holds
\* its first 1000.
C26_Witness ==
  /\ Extracted
  /\ http.roi_data.raised = "ValueError"
  /\ Len(result.final_response) > 1000
  /\ Len(http.response.final_response) = 1000
  /\ http.response.error_type = "execution_error"

\* C26 as stated: a validation-style error that preserves the raw final
\* response text.
C26_Original ==
  ExtractionRaised =>
    /\ http.response.status = "error"
    /\ http.response.error_type = "validation_error"
    /\ http.response.final_response = result.final_response

(***************************************************************************)
(* C27.  In execute_browser_task, when a page has been opened beside the   *)
(* agent's own, handle_new_page closes that page and then navigates the    *)
(* agent's page to its URL, so that with one page opened exactly one page  *)
(* is open afterwards; the handler can run at every point of the loop at   *)
(* which the browser is still open, and nothing else closes a page.        *)
(***************************************************************************)
\* The pages open in the context.
OpenPages == IF closed > 0 THEN 0 ELSE 1 + Len(tabs)

\* The handler's step: it ends with the navigation to the opened page's URL,
\* opens no page and is no step of the loop.
HandlerRuns ==
  /\ tabs # << >>
  /\ Len(tabs') <= Len(tabs)
  /\ events' # << >>
  /\ Last(events') = Ev("page.goto", 0, 0, Head(tabs))
  /\ pc' = pc /\ partIx' = partIx /\ turn' = turn

C27_NewTabFoldedIntoPage ==
  /\ [][(Main /\ HandlerRuns) =>
          /\ events' = << Ev("new_page.close", 0, 0, Head(tabs)),
                          Ev("page.goto", 0, 0, Head(tabs)) >>
          /\ tabs' = Tail(tabs)
          /\ url' = Head(tabs)
          /\ OpenPages' = OpenPages - 1
          /\ Len(tabs) = 1 => OpenPages' = 1
          /\ pc' = pc /\ result' = result /\ contents' = contents]_vars
  /\ [](( Main /\ tabs # << >> /\ closed = 0) => ENABLED handle_new_page)
  /\ [](~Main => ~ENABLED handle_new_page)

\* The handler has just run in the middle of a responder turn's actions.
C27_Witness ==
  /\ Main
  /\ pc = "exec"
  /\ partIx > 1
  /\ tabs = << >>
  /\ OpenPages = 1
  /\ url \in TabUrls
  /\ Len(events) = 2
  /\ events[1].op = "new_page.close"
  /\ events[2] = Ev("page.goto", 0, 0, url)

(***************************************************************************)
(* C28: the order of the events of type_text_at.                           *)
(***************************************************************************)
IsInputEvent(e) == e.op \in InputOps

\* The input an executed call dispatched, without the waits between.
Dispatched(evs) == SelectSeq(evs, IsInputEvent)

\* What the rule asks of type_text_at with arguments a.
TypeTextOrder(a) ==
  << Ev("mouse.click", denormalize_x(a.x), denormalize_y(a.y), "") >>
  \o (IF ArgGet(a, "clear_before_typing", TRUE)
      THEN Chord(ChordTokens("Control+A")) \o Chord(ChordTokens("Delete"))
      ELSE << >>)
  \o << Ev("keyboard.type", 0, 0, a.text) >>
  \o (IF ArgGet(a, "press_enter", FALSE)
      THEN << Ev("keyboard.press", 0, 0, "Enter") >> ELSE << >>)

\* C28: in both loops a type_text_at call with its coordinates and its text
\* dispatches a click at the mapped pixel, then Control+A and Delete unless
\* clear_before_typing is false (absent counts as true), then the text, then
\* Enter only if press_enter is true (absent counts as false); a call that
\* is interrupted has dispatched a prefix of that sequence.
C28_TypeTextOrder ==
  [][(Dispatching("type_text_at")
        /\ {"x", "y", "text"} \subseteq CurrentCall.args.has) =>
       /\ IsPrefix(Dispatched(events'), TypeTextOrder(CurrentCall.args))
       /\ NothingRaised => Dispatched(events') = TypeTextOrder(CurrentCall.args)]_vars

\* execute_browser_task typed "hi" at (175, 350) with clear_before_typing
\* absent and press_enter true: click, the two clearing chords, the text and
\* Enter, with the settle-waits of the branch between.
C28_Witness ==
  /\ Main
  /\ CallNames(candidate.parts) = << "type_text_at" >>
  /\ events = << Ev("mouse.click", 251, 315, ""), WaitForLoadState,
                 Ev("keyboard.down", 0, 0, "Control"),
                 Ev("keyboard.press", 0, 0, "A"),
                 Ev("keyboard.up", 0, 0, "Control"),
                 Ev("keyboard.press", 0, 0, "Delete"),
                 Ev("keyboard.type", 0, 0, "hi"), WaitForLoadState,
                 Ev("keyboard.press", 0, 0, "Enter"),
                 WaitForLoadState, Sleep(500), Screenshot >>

(***************************************************************************)
(* C29: the wheel delta of scroll_at.                                      *)
(***************************************************************************)
ScrollDirections == {"up", "down", "left", "right"}

\* The magnitude of arguments a mapped to pixels: against the height for up
\* and down, against the width for left and right.
ScrollPixels(a) ==
  IF a.direction \in {"up", "down"}
  THEN denormalize_y(ArgGet(a, "magnitude", 800))
  ELSE denormalize_x(ArgGet(a, "magnitude", 800))

\* The delta the rule gives for direction d and pixel magnitude m.
ScrollDelta(d, m) ==
  CASE d = "up" -> << 0, 0 - m >>
    [] d = "down" -> << 0, m >>
    [] d = "left" -> << 0 - m, 0 >>
    [] d = "right" -> << m, 0 >>

\* C29: in execute_browser_task a scroll_at call with its coordinates and one
\* of the four directions moves the pointer to the mapped point and then
\* dispatches one wheel event; its delta is (0,-m), (0,m), (-m,0), (m,0) for up, down, left,
\* right, where m is the magnitude (800 when absent) mapped against the
\* viewport height for up and down (720 for 800) and against the width for
\* left and right (1152 for 800); when m is positive exactly one of the two
\* components is non-zero.
C29_ScrollAtWheel ==
  [][(Main /\ Dispatching("scroll_at")
        /\ {"x", "y", "direction"} \subseteq CurrentCall.args.has
        /\ CurrentCall.args.direction \in ScrollDirections) =>
       LET a == CurrentCall.args
           m == ScrollPixels(a)
           delta == ScrollDelta(a.direction, m)
           d == Dispatched(events')
           asked == << Ev("mouse.move", denormalize_x(a.x), denormalize_y(a.y), ""),
                       Ev("mouse.wheel", delta[1], delta[2], "") >>
       IN /\ IsPrefix(d, asked)
          /\ NothingRaised =>
               /\ d = asked
               /\ "magnitude" \notin a.has =>
                    m = (IF a.direction \in {"up", "down"} THEN 720 ELSE 1152)
               /\ m > 0 => ((d[2].a = 0) # (d[2].b = 0))]_vars

\* C29 as stated: the same, with exactly one component non-zero whenever the
\* magnitude argument is positive.  A magnitude of 1 scrolled up or down maps
\* to int(1 / 1000 * 900) = 0 pixels and the wheel event is (0, 0).
C29_Original ==
  [][(Main /\ Dispatching("scroll_at")
        /\ {"x", "y", "direction"} \subseteq CurrentCall.args.has
        /\ CurrentCall.args.direction \in ScrollDirections
        /\ NothingRaised) =>
       LET a == CurrentCall.args
           delta == ScrollDelta(a.direction, ScrollPixels(a))
           d == Dispatched(events')
       IN /\ d = << Ev("mouse.move", denormalize_x(a.x), denormalize_y(a.y), ""),
                    Ev("mouse.wheel", delta[1], delta[2], "") >>
          /\ ArgGet(a, "magnitude", 800) > 0 => ((d[2].a = 0) # (d[2].b = 0))]_vars

\* execute_browser_task scrolled up at (700, 575) with the default magnitude.
C29_Witness ==
  /\ Main
  /\ CallNames(candidate.parts) = << "scroll_at" >>
  /\ events = << Ev("mouse.move", 1007, 517, ""), Ev("mouse.wheel", 0, 0 - 720, ""),
                 WaitForLoadState, Sleep(500), Screenshot >>

(***************************************************************************)
(* C30: the events of drag_and_drop and the release of the button.         *)
(***************************************************************************)
\* What the rule asks of drag_and_drop with arguments a.
DragOrder(a) ==
  << Ev("mouse.move", denormalize_x(a.x), denormalize_y(a.y), ""), WaitForLoadState,
     Ev("mouse.down", 0, 0, ""), WaitForLoadState,
     Ev("mouse.move", denormalize_x(a.destination_x), denormalize_y(a.destination_y), ""),
     WaitForLoadState, Ev("mouse.up", 0, 0, "") >>

\* Every mouse.down of evs is followed by a mouse.up.
ButtonReleased(evs) ==
  \A k \in 1..Len(evs) :
    evs[k].op = "mouse.down" => \E j \in (k + 1)..Len(evs) : evs[j].op = "mouse.up"

\* An uninterrupted drag_and_drop dispatches the seven events in order.
DragSequence ==
  [][(Main /\ Dispatching("drag_and_drop")
        /\ {"x", "y", "destination_x", "destination_y"} \subseteq CurrentCall.args.has
        /\ NothingRaised) =>
       IsPrefix(DragOrder(CurrentCall.args), events')]_vars

\* C30 as stated: in execute_browser_task a drag_and_drop call with its four
\* coordinates dispatches move to the mapped source, settle-wait, mouse down,
\* settle-wait, move to the mapped destination, settle-wait, mouse up, and
\* the button the action pressed is released before the action ends.  When
\* the settle-wait or the move after mouse.down raises, the except clause of
\* the action ends it with the button still pressed.
C30_Original ==
  [][(Main /\ Dispatching("drag_and_drop")
        /\ {"x", "y", "destination_x", "destination_y"} \subseteq CurrentCall.args.has) =>
       /\ NothingRaised => IsPrefix(DragOrder(CurrentCall.args), events')
       /\ ButtonReleased(events')]_vars

(***************************************************************************)
(* C31: no key stays held after execute_key_combination.                   *)
(***************************************************************************)
\* Every keyboard.down of evs is followed by a keyboard.up of the same key.
KeysReleased(evs) ==
  \A k \in 1..Len(evs) :
    evs[k].op = "keyboard.down" =>
      \E j \in (k + 1)..Len(evs) : evs[j].op = "keyboard.up" /\ evs[j].s = evs[k].s

\* An execute_key_combination that returns has released every key it held.
ReturnedChordReleased ==
  [][(Dispatching("key_combination") /\ "keys" \in CurrentCall.args.has
        /\ NothingRaised) => KeysReleased(events')]_vars

\* C31 as stated: when execute_key_combination has ended, by return or by an
\* exception of the input layer, every key-down it dispatched has a matching
\* key-up.  The function has no finally clause: when keyboard.press or a
\* later keyboard.down raises, the keys put down before stay held.
C31_Original ==
  [][(Dispatching("key_combination") /\ "keys" \in CurrentCall.args.has) =>
       KeysReleased(events')]_vars

(***************************************************************************)
(* C32: every exit closes the browser and stops the driver, once.          *)
(***************************************************************************)
Teardown == << Ev("browser.close", 0, 0, ""), Ev("playwright.stop", 0, 0, "") >>

\* C32: in both loops every exit goes through the finally clause: a step
\* in which an exception escapes the loop, and the step after the loop that
\* returns, both leave control at the clause; there the clause can run and
\* nothing else can; it runs once, dispatching browser.close() and then
\* playwright.stop(); the function has ended exactly when it has run, and
\* once it has run no further step, hence no browser operation, is taken.
C32_ClosedExactlyOnce ==
  /\ [](closed <= 1)
  /\ [](pc = "done" <=> closed = 1)
  /\ [](pc = "finally" => ENABLED Finally)
  /\ [][/\ closed = 0
        /\ exc' # exc => pc' = "finally"
        /\ pc = "final" => pc' = "finally"
        /\ pc = "finally" => closed' = 1
        /\ closed' # closed =>
             (pc = "finally" /\ closed' = 1 /\ pc' = "done" /\ events' = Teardown)
        /\ closed' = closed =>
             \A k \in 1..Len(events') :
               events'[k].op \notin {"browser.close", "playwright.stop"}]_vars

\* An exception has left execute_browser_task after some action was
\* executed, and the finally clause has closed the browser and stopped the
\* driver.
C32_Witness ==
  /\ Main
  /\ pc = "done"
  /\ exc # ""
  /\ Len(result.actions_taken) > 0
  /\ closed = 1
  /\ events = Teardown

(***************************************************************************)
(* C33: pruning leaves the first initiator turn alone.                     *)
(***************************************************************************)
\* The turn the conversation is built with: the task text and the initial
\* screenshot.
IsFirstTurn(c) ==
  \E task \in Tasks : c = Content("user", << TextPart(task), ImagePart >>)

\* The turns of cs whose action-result image has been dropped.
PrunedTurns(cs) ==
  { i \in 1..Len(cs) :
      \E k \in 1..Len(cs[i].parts) :
        /\ cs[i].parts[k].function_response.set
        /\ cs[i].parts[k].function_response.parts = << >> }

\* C33: in execute_browser_task the first turn of the conversation is, in
\* every state and so in every inference request, the initiator turn with
\* the task text and the initial screenshot; no step changes it, and the
\* pruning of the conversation as it stands, and of the conversation with
\* the results of the turn appended, leaves it as it is.
C33_FirstTurnUntouched ==
  /\ [](Main => /\ Len(contents) >= 1
                /\ IsFirstTurn(contents[1])
                /\ cleanup_old_screenshots(contents)[1] = contents[1])
  /\ [][Main => contents'[1] = contents[1]]_vars
  /\ [][PruningStep =>
          /\ contents' = cleanup_old_screenshots(BeforePruning)
          /\ contents'[1] = BeforePruning[1]]_vars

\* A request is about to be sent after four turns have been pruned.
C33_Witness ==
  /\ Main
  /\ pc = "request"
  /\ Cardinality(PrunedTurns(contents)) >= 4
  /\ IsFirstTurn(contents[1])

(***************************************************************************)
(* C34: cleanup_old_screenshots is idempotent and monotone.                *)
(***************************************************************************)
\* after is before with nothing changed but the images of function
\* responses, and those only dropped: the same turns and the same segments
\* in the same order.
OnlyImagesDropped(before, after) ==
  /\ Len(after) = Len(before)
  /\ \A i \in 1..Len(before) :
       /\ after[i].role = before[i].role
       /\ Len(after[i].parts) = Len(before[i].parts)
       /\ \A k \in 1..Len(before[i].parts) :
            \/ after[i].parts[k] = before[i].parts[k]
            \/ after[i].parts[k] =
                 [before[i].parts[k] EXCEPT !.function_response.parts = << >>]

\* The segments of cs that are function responses without an image.
DroppedImages(cs) ==
  UNION { { << i, k >> : k \in { j \in 1..Len(cs[i].parts) :
                                   /\ cs[i].parts[j].function_response.set
                                   /\ cs[i].parts[j].function_response.parts = << >> } } :
          i \in 1..Len(cs) }

Idempotent(cs) ==
  cleanup_old_screenshots(cleanup_old_screenshots(cs)) = cleanup_old_screenshots(cs)

\* C34: applied to the conversation of any state of either loop, and to the
\* conversation the pruning step of execute_browser_task applies it to,
\* cleanup_old_screenshots gives a result on which a second application
\* changes nothing, and a result that differs from its argument only by
\* dropped images; in every step the conversation keeps its turns and
\* segments in place, at most grows at the end, and every image dropped
\* before the step is still dropped after it.
C34_CleanupIdempotentMonotone ==
  /\ [](/\ Idempotent(contents)
        /\ OnlyImagesDropped(contents, cleanup_old_screenshots(contents)))
  /\ [][PruningStep =>
          /\ Idempotent(BeforePruning)
          /\ cleanup_old_screenshots(contents') = contents'
          /\ OnlyImagesDropped(BeforePruning, contents')]_vars
  /\ [][/\ Len(contents') >= Len(contents)
        /\ OnlyImagesDropped(contents, SubSeq(contents', 1, Len(contents)))
        /\ DroppedImages(contents) \subseteq DroppedImages(contents')]_vars

\* After a pruning that dropped an image, with at least two images dropped
\* so far, in a conversation that also holds a turn of several results.
C34_Witness ==
  /\ Main
  /\ pc = "request"
  /\ Cardinality(DroppedImages(contents)) >= 2
  /\ \E i \in 1..Len(contents) : Len(contents[i].parts) >= 2 /\ contents[i].role = "user"
  /\ cleanup_old_screenshots(contents) = contents

(***************************************************************************)
(* C35: one inference client per process under concurrent get_client.      *)
(***************************************************************************)
\* What the get_client calls have returned so far.
ReturnedClients ==
  UNION { { client.got[h][i] : i \in 1..Len(client.got[h]) } : h \in Handlers }

\* Whatever the interleaving, a call returns a client, never None, and a
\* handler constructs at most one.
GetClientReturnsAClient ==
  /\ 0 \notin ReturnedClients
  /\ ReturnedClients \subseteq 1..client.constructed
  /\ client.constructed <= MaxHandlers
  /\ client.constructed > 0 =>
       \E h \in Handlers : client.at[h] = "assign" \/ client.instance # 0

\* A call that tests _client after it was assigned constructs nothing.
StoredClientReused ==
  [][\A h \in Handlers :
       (client.at[h] = "test" /\ client.instance # 0) => client'.at[h] # "construct"]_vars

\* C35 as stated: under every interleaving of the get_client calls of
\* several handlers the client is constructed at most once and every call
\* returns the same instance.  Two calls that both test _client before
\* either has assigned it both construct a client, and each may return its
\* own.
C35_Original ==
  /\ client.constructed <= 1
  /\ Cardinality(ReturnedClients) <= 1

====
